---- MODULE Spec2Model ----
(***************************************************************************)
(* Certificate ledger of the CertificateManager contract                   *)
(* (src/unnamed/part_002): one growable certificate per address, paid for  *)
(* with one-time payment receipt hashes.                                   *)
(*                                                                         *)
(* Amounts are in units of 10^12 wei, so 0.001 ether = 1000.               *)
(* A transaction is modelled in small steps: the entry step runs the       *)
(* checks and the storage writes up to the first external call, and every  *)
(* external call (token-receipt callback, value transfer) is one further   *)
(* step in which the callee accepts, rejects, or calls back into the       *)
(* contract.  A revert restores the storage saved at entry.                *)
(***************************************************************************)
EXTENDS Integers, Sequences, FiniteSets, TLC

\* ---------------------------------------------------------------- bounds
NumAddresses == 3
NumCourses == 3
NumHashes == 2
MaxBatch == 2
MaxTime == 2
Excess == 7

Address == 1..NumAddresses          \* address(0) is 0
Course == 1..NumCourses
PaymentHash == 0..NumHashes         \* bytes32(0) is 0
\* A string is its text and its length in bytes.
Str(text, bytes) == [text |-> text, bytes |-> bytes]
EmptyString == Str("", 0)
Names == {EmptyString, Str("Ann", 3)}
CIDs == {EmptyString, Str("QmA", 46), Str("QmB", 46)}
Routes == {Str("/verify", 7)}
PriceInputs == {0, 45, 2001}

\* ------------------------------------------------------ program constants
MAX_CERTIFICATE_PRICE == 2000
InitialCertificateFee == 1000
InitialCourseAdditionFee == 100
NOT_ENTERED == 1
ENTERED == 2

\* bytes(str).length
BytesLength(str) == str.bytes

\* courseFactory.getCourse(courseId).creator
CourseCreator(courseId) == ((courseId + 1) % NumAddresses) + 1

\* Ownable(msg.sender): the deployer
ContractOwner == 1

\* The platform wallet the constructor is given.
InitialPlatformWallet == 1

\* The platform name and the base route the constructor is given.
InitialPlatformName == Str("EduVerse", 8)
InitialBaseRoute == Str("/verify", 7)

\* progressTracker.isCourseCompleted(user, courseId): the last course is completed
\* by nobody, every other course by everybody but the contract owner.
IsCourseCompleted(user, courseId) == user # ContractOwner /\ courseId < NumCourses

\* courseLicense.getLicense(user, courseId).courseId: everybody has held a license
\* for every course, except the last address for course 2.
LicenseCourseId(user, courseId) ==
    IF user = NumAddresses /\ courseId = 2 THEN 0 ELSE courseId

VARIABLES
    nextTokenId,                \* _nextTokenId
    certificates,               \* tokenId -> Certificate, for the ids allocated
    userCertificates,           \* address -> tokenId (0: none)
    usedPaymentHashes,          \* the hashes mapped to true
    certificateCourseExists,    \* the <<tokenId, courseId>> mapped to true
    courseCertificatePrices,    \* courseId -> price (0: unset)
    defaultCertificateFee,
    defaultCourseAdditionFee,
    defaultPlatformName,
    defaultBaseRoute,
    defaultMetadataBaseURI,
    tokenURIs,                  \* _tokenURIs: the <<tokenId, URI>> set by the owner
    platformWallet,
    paused,                     \* Pausable._paused
    status,                     \* ReentrancyGuard._status
    tokenBalance,               \* ERC1155 balances: the <<address, tokenId>> holding one unit
    contractBalance,            \* address(this).balance
    now,                        \* block.timestamp
    call                        \* the transaction in progress, or the last one finished

storageVars == <<nextTokenId, certificates, userCertificates, usedPaymentHashes,
                 certificateCourseExists, courseCertificatePrices,
                 defaultCertificateFee, defaultCourseAdditionFee, defaultPlatformName,
                 defaultBaseRoute, defaultMetadataBaseURI, tokenURIs,
                 platformWallet, paused, tokenBalance>>

vars == <<nextTokenId, certificates, userCertificates, usedPaymentHashes,
          certificateCourseExists, courseCertificatePrices,
          defaultCertificateFee, defaultCourseAdditionFee, defaultPlatformName,
          defaultBaseRoute, defaultMetadataBaseURI, tokenURIs,
          platformWallet, paused, status, tokenBalance, contractBalance, now, call>>

\* The state a revert restores.
Storage ==
    [ nextTokenId |-> nextTokenId,
      certificates |-> certificates,
      userCertificates |-> userCertificates,
      usedPaymentHashes |-> usedPaymentHashes,
      certificateCourseExists |-> certificateCourseExists,
      courseCertificatePrices |-> courseCertificatePrices,
      defaultCertificateFee |-> defaultCertificateFee,
      defaultCourseAdditionFee |-> defaultCourseAdditionFee,
      defaultPlatformName |-> defaultPlatformName,
      defaultBaseRoute |-> defaultBaseRoute,
      defaultMetadataBaseURI |-> defaultMetadataBaseURI,
      tokenURIs |-> tokenURIs,
      platformWallet |-> platformWallet,
      paused |-> paused,
      tokenBalance |-> tokenBalance,
      contractBalance |-> contractBalance ]

\* A revert that leaves the replay guard as the failed transaction wrote it.
RevertKeepingHashes(before) ==
    /\ nextTokenId' = before.nextTokenId
    /\ certificates' = before.certificates
    /\ userCertificates' = before.userCertificates
    /\ usedPaymentHashes' = usedPaymentHashes
    /\ certificateCourseExists' = before.certificateCourseExists
    /\ courseCertificatePrices' = before.courseCertificatePrices
    /\ defaultCertificateFee' = before.defaultCertificateFee
    /\ defaultCourseAdditionFee' = before.defaultCourseAdditionFee
    /\ defaultPlatformName' = before.defaultPlatformName
    /\ defaultBaseRoute' = before.defaultBaseRoute
    /\ defaultMetadataBaseURI' = before.defaultMetadataBaseURI
    /\ tokenURIs' = before.tokenURIs
    /\ platformWallet' = before.platformWallet
    /\ paused' = before.paused
    /\ tokenBalance' = before.tokenBalance
    /\ contractBalance' = before.contractBalance

\* The revert of a transaction: every write since its entry is undone.
Revert(before) ==
    /\ nextTokenId' = before.nextTokenId
    /\ certificates' = before.certificates
    /\ userCertificates' = before.userCertificates
    /\ usedPaymentHashes' = before.usedPaymentHashes
    /\ certificateCourseExists' = before.certificateCourseExists
    /\ courseCertificatePrices' = before.courseCertificatePrices
    /\ defaultCertificateFee' = before.defaultCertificateFee
    /\ defaultCourseAdditionFee' = before.defaultCourseAdditionFee
    /\ defaultPlatformName' = before.defaultPlatformName
    /\ defaultBaseRoute' = before.defaultBaseRoute
    /\ defaultMetadataBaseURI' = before.defaultMetadataBaseURI
    /\ tokenURIs' = before.tokenURIs
    /\ platformWallet' = before.platformWallet
    /\ paused' = before.paused
    /\ tokenBalance' = before.tokenBalance
    /\ contractBalance' = before.contractBalance

\* ---------------------------------------------------------------- helpers

\* The record of a call, before its outcome is known.
NoCall ==
    [ op |-> "none", state |-> "idle", sender |-> 0, err |-> "",
      hash |-> 0, courseIds |-> <<>>, tokenId |-> 0, value |-> 0,
      name |-> EmptyString, cid |-> EmptyString,
      minted |-> FALSE, required |-> 0, feePercent |-> 0, payee |-> 0,
      pending |-> <<>>, legs |-> <<>>, reentered |-> "", time |-> 0,
      before |-> <<>> ]

\* modifier validStringLength: the string is neither empty nor longer than maxLength
ValidStringLength(str, maxLength) ==
    ~(BytesLength(str) = 0 \/ BytesLength(str) > maxLength)

\* _exists(tokenId)
Exists(tokenId) == tokenId > 0 /\ tokenId < nextTokenId

\* A replay check that never finds the hash.
PaymentHashNeverUsed(paymentReceiptHash) == FALSE

\* usedPaymentHashes[paymentReceiptHash]
PaymentHashUsed(paymentReceiptHash) == paymentReceiptHash \in usedPaymentHashes

\* The mark left for after the external calls: not yet written when they run.
MarkPaymentHashLater(used, paymentReceiptHash) == used

\* A mark that forgets the hashes used before.
MarkPaymentHashAlone(used, paymentReceiptHash) == {paymentReceiptHash}

\* usedPaymentHashes[paymentReceiptHash] = true
MarkPaymentHash(used, paymentReceiptHash) == used \cup {paymentReceiptHash}

\* A mint that does not record the certificate of the user.
ForgetUserCertificate(map, sender, tokenId) == map

\* userCertificates[msg.sender] = tokenId
SetUserCertificate(map, sender, tokenId) == [map EXCEPT ![sender] = tokenId]

\* _getCertificatePrice(courseId)
GetCertificatePrice(courseId) ==
    LET creatorPrice == courseCertificatePrices[courseId]
    IN  IF creatorPrice > 0 THEN creatorPrice ELSE defaultCertificateFee

\* A settlement that keeps the excess payment.
TransferLegsNoRefund(platformFee, recipientFee, recipient, sender, value, totalAmount) ==
    (IF platformFee > 0
        THEN <<[kind |-> "platform", to |-> platformWallet, amount |-> platformFee]>>
        ELSE <<>>)
    \o (IF recipientFee > 0
        THEN <<[kind |-> "recipient", to |-> recipient, amount |-> recipientFee]>>
        ELSE <<>>)

\* The value transfers of a settlement, in the order the code makes them.
TransferLegs(platformFee, recipientFee, recipient, sender, value, totalAmount) ==
    (IF platformFee > 0
        THEN <<[kind |-> "platform", to |-> platformWallet, amount |-> platformFee]>>
        ELSE <<>>)
    \o (IF recipientFee > 0
        THEN <<[kind |-> "recipient", to |-> recipient, amount |-> recipientFee]>>
        ELSE <<>>)
    \o (IF value > totalAmount
        THEN <<[kind |-> "refund", to |-> sender, amount |-> value - totalAmount]>>
        ELSE <<>>)

\* A mint settled at the fee of the additions.
CertificatePlatformFeeOfAddition(totalAmount) == (totalAmount * 200) \div 10000

\* platformFee of _processCertificatePayment: 10%
CertificatePlatformFee(totalAmount) == (totalAmount * 1000) \div 10000

\* An addition settled at the fee of the mint.
AdditionPlatformFeeOfMint(totalAmount) == (totalAmount * 1000) \div 10000

\* platformFee of _processPayment: 2%
AdditionPlatformFee(totalAmount) == (totalAmount * 200) \div 10000

\* _processCertificatePayment(recipient, totalAmount)
ProcessCertificatePayment(recipient, totalAmount, sender, value) ==
    LET platformFee == CertificatePlatformFee(totalAmount)
        creatorFee == totalAmount - platformFee
    IN  TransferLegs(platformFee, creatorFee, recipient, sender, value, totalAmount)

\* _processPayment(recipient, totalAmount)
ProcessPayment(recipient, totalAmount, sender, value) ==
    LET platformFee == AdditionPlatformFee(totalAmount)
        recipientFee == totalAmount - platformFee
    IN  TransferLegs(platformFee, recipientFee, recipient, sender, value, totalAmount)

\* The values a caller attaches: one short of the amount due, exact, in excess.
ValueChoices(due) == {v \in {due - 1, due, due + Excess} : v >= 0}

\* A call that reverts at entry: nothing is written, and the caller sees the error.
FailAtEntry(c, err) ==
    /\ call' = [NoCall EXCEPT !.op = c.op, !.sender = c.sender, !.state = "reverted",
                              !.err = err, !.before = Storage]
    /\ UNCHANGED <<storageVars, status, contractBalance, now>>

\* A call that has made its writes and goes on to its external calls.
Proceed(c, pending) ==
    /\ status' = ENTERED
    /\ contractBalance' = contractBalance + c.value
    /\ call' = [c EXCEPT !.state = "running", !.pending = pending, !.before = Storage]
    /\ UNCHANGED now

\* ------------------------------------------------- mintOrUpdateCertificate

\* The checks with the pause looked at last.
MintOrUpdateErrorPauseLast(sender, courseId, ipfsCID, paymentReceiptHash) ==
    IF status = ENTERED THEN "ReentrancyGuardReentrantCall"
    ELSE IF ~ValidStringLength(ipfsCID, 2000) THEN "InvalidStringLength"
    ELSE IF paymentReceiptHash = 0 THEN "InvalidPaymentReceiptHash"
    ELSE IF PaymentHashUsed(paymentReceiptHash) THEN "PaymentHashAlreadyUsed"
    ELSE IF ~IsCourseCompleted(sender, courseId) THEN "CourseNotCompleted"
    ELSE IF LicenseCourseId(sender, courseId) = 0 THEN "NoLicenseOwnership"
    ELSE IF paused THEN "EnforcedPause"
    ELSE ""

\* The checks of mintOrUpdateCertificate before it branches.
MintOrUpdateError(sender, courseId, ipfsCID, paymentReceiptHash) ==
    IF status = ENTERED THEN "ReentrancyGuardReentrantCall"
    ELSE IF paused THEN "EnforcedPause"
    ELSE IF ~ValidStringLength(ipfsCID, 2000) THEN "InvalidStringLength"
    ELSE IF paymentReceiptHash = 0 THEN "InvalidPaymentReceiptHash"
    ELSE IF PaymentHashUsed(paymentReceiptHash) THEN "PaymentHashAlreadyUsed"
    ELSE IF ~IsCourseCompleted(sender, courseId) THEN "CourseNotCompleted"
    ELSE IF LicenseCourseId(sender, courseId) = 0 THEN "NoLicenseOwnership"
    ELSE ""

\* The checks of _mintFirstCertificate.
MintFirstError(sender, courseId, recipientName, value) ==
    IF ~ValidStringLength(recipientName, 100) THEN "InvalidStringLength"
    ELSE IF userCertificates[sender] # 0 THEN "CertificateAlreadyExists"
    ELSE IF value < GetCertificatePrice(courseId) THEN "InsufficientPayment"
    ELSE ""

\* The checks without the one of the validity of the certificate.
AddCourseErrorIgnoringValidity(sender, tokenId, courseId, value) ==
    IF value < GetCertificatePrice(courseId) THEN "InsufficientPayment"
    ELSE IF certificates[tokenId].recipientAddress # sender THEN "CertificateNotFound"
    ELSE IF <<tokenId, courseId>> \in certificateCourseExists
        THEN "CourseAlreadyInCertificate"
    ELSE ""

\* The checks of _addCourseToExistingCertificate.
AddCourseError(sender, tokenId, courseId, value) ==
    IF value < GetCertificatePrice(courseId) THEN "InsufficientPayment"
    ELSE IF certificates[tokenId].recipientAddress # sender THEN "CertificateNotFound"
    ELSE IF ~certificates[tokenId].isValid THEN "CertificateNotFound"
    ELSE IF <<tokenId, courseId>> \in certificateCourseExists
        THEN "CourseAlreadyInCertificate"
    ELSE ""

\* A struct issued to the creator of the course instead of the caller.
NewCertificateForCreator(tokenId, sender, courseId, recipientName, ipfsCID, paymentReceiptHash, baseRoute) ==
    [ tokenId |-> tokenId,
      platformName |-> defaultPlatformName,
      recipientName |-> recipientName,
      recipientAddress |-> CourseCreator(courseId),
      lifetimeFlag |-> TRUE,
      isValid |-> TRUE,
      ipfsCID |-> ipfsCID,
      baseRoute |-> baseRoute,
      issuedAt |-> now,
      lastUpdated |-> now,
      totalCoursesCompleted |-> 1,
      paymentReceiptHash |-> paymentReceiptHash,
      completedCourses |-> <<courseId>> ]

\* The Certificate struct _mintFirstCertificate stores.
NewCertificate(tokenId, sender, courseId, recipientName, ipfsCID, paymentReceiptHash, baseRoute) ==
    [ tokenId |-> tokenId,
      platformName |-> defaultPlatformName,
      recipientName |-> recipientName,
      recipientAddress |-> sender,
      lifetimeFlag |-> TRUE,
      isValid |-> TRUE,
      ipfsCID |-> ipfsCID,
      baseRoute |-> baseRoute,
      issuedAt |-> now,
      lastUpdated |-> now,
      totalCoursesCompleted |-> 1,
      paymentReceiptHash |-> paymentReceiptHash,
      completedCourses |-> <<courseId>> ]

\* The writes of _mintFirstCertificate, up to _mint's acceptance callback.
MintFirstCertificate(c, sender, courseId, recipientName, ipfsCID, paymentReceiptHash, baseRoute, value) ==
    LET certificatePrice == GetCertificatePrice(courseId)
        tokenId == nextTokenId
    IN  /\ nextTokenId' = nextTokenId + 1
        /\ usedPaymentHashes' = MarkPaymentHash(usedPaymentHashes, paymentReceiptHash)
        /\ certificates' = Append(certificates,
               NewCertificate(tokenId, sender, courseId, recipientName, ipfsCID,
                              paymentReceiptHash, baseRoute))
        /\ userCertificates' = SetUserCertificate(userCertificates, sender, tokenId)
        /\ certificateCourseExists' = certificateCourseExists \cup {<<tokenId, courseId>>}
        /\ tokenBalance' = tokenBalance \cup {<<sender, tokenId>>}
        /\ Proceed([c EXCEPT !.minted = TRUE, !.tokenId = tokenId,
                             !.required = certificatePrice, !.feePercent = 10,
                             !.payee = CourseCreator(courseId)],
                   <<[kind |-> "onERC1155Received", to |-> sender, amount |-> 0]>>
                   \o ProcessCertificatePayment(CourseCreator(courseId),
                                                certificatePrice, sender, value))
        /\ UNCHANGED <<courseCertificatePrices, defaultCertificateFee,
                       defaultCourseAdditionFee, defaultPlatformName,
                       defaultBaseRoute, defaultMetadataBaseURI, tokenURIs,
                       platformWallet, paused>>

\* An append that refreshes the record and adds no course.
AddCourseMetadataOnly(cert, courseId, ipfsCID, paymentReceiptHash) ==
    [cert EXCEPT !.lastUpdated = now,
                 !.ipfsCID = ipfsCID,
                 !.paymentReceiptHash = paymentReceiptHash]

\* cert.completedCourses.push(courseId) and the writes that go with it
AddCourse(cert, courseId, ipfsCID, paymentReceiptHash) ==
    [cert EXCEPT !.completedCourses = Append(@, courseId),
                 !.totalCoursesCompleted = @ + 1,
                 !.lastUpdated = now,
                 !.ipfsCID = ipfsCID,
                 !.paymentReceiptHash = paymentReceiptHash]

\* The writes of _addCourseToExistingCertificate, up to _processPayment.
AddCourseToExistingCertificate(c, sender, tokenId, courseId, ipfsCID, paymentReceiptHash, value) ==
    LET additionPrice == GetCertificatePrice(courseId)
    IN  /\ usedPaymentHashes' = MarkPaymentHash(usedPaymentHashes, paymentReceiptHash)
        /\ certificates' = [certificates EXCEPT ![tokenId] =
               AddCourse(@, courseId, ipfsCID, paymentReceiptHash)]
        /\ certificateCourseExists' = certificateCourseExists \cup {<<tokenId, courseId>>}
        /\ Proceed([c EXCEPT !.tokenId = tokenId, !.required = additionPrice,
                             !.feePercent = 2, !.payee = CourseCreator(courseId)],
                   ProcessPayment(CourseCreator(courseId), additionPrice, sender, value))
        /\ UNCHANGED <<nextTokenId, userCertificates, tokenBalance,
                       courseCertificatePrices, defaultCertificateFee,
                       defaultCourseAdditionFee, defaultPlatformName,
                       defaultBaseRoute, defaultMetadataBaseURI, tokenURIs,
                       platformWallet, paused>>

\* The error mintOrUpdateCertificate ends with, "" when it passes every check.
MintOrUpdateOutcome(sender, courseId, recipientName, ipfsCID, paymentReceiptHash, value) ==
    LET err == MintOrUpdateError(sender, courseId, ipfsCID, paymentReceiptHash)
        existingTokenId == userCertificates[sender]
    IN  IF err # "" THEN err
        ELSE IF existingTokenId = 0
        THEN MintFirstError(sender, courseId, recipientName, value)
        ELSE AddCourseError(sender, existingTokenId, courseId, value)

MintOrUpdateCertificate(sender, courseId, recipientName, ipfsCID, paymentReceiptHash, baseRoute, value) ==
    LET c == [NoCall EXCEPT !.op = "mintOrUpdateCertificate", !.sender = sender,
                            !.hash = paymentReceiptHash, !.courseIds = <<courseId>>,
                            !.value = value, !.name = recipientName, !.cid = ipfsCID,
                            !.required = GetCertificatePrice(courseId),
                            !.tokenId = userCertificates[sender],
                            !.time = now]
        err == MintOrUpdateOutcome(sender, courseId, recipientName, ipfsCID,
                                   paymentReceiptHash, value)
        existingTokenId == userCertificates[sender]
    IN  /\ call.state = "idle"
        /\ IF err # "" THEN FailAtEntry(c, err)
           ELSE IF existingTokenId = 0
           THEN MintFirstCertificate(c, sender, courseId, recipientName,
                    ipfsCID, paymentReceiptHash, baseRoute, value)
           ELSE AddCourseToExistingCertificate(c, sender, existingTokenId,
                    courseId, ipfsCID, paymentReceiptHash, value)

\* -------------------------------------------------------- updateCertificate

\* The checks without the one of the caller.
UpdateCertificateErrorAnyCaller(sender, tokenId, newIpfsCID, paymentReceiptHash, value) ==
    IF status = ENTERED THEN "ReentrancyGuardReentrantCall"
    ELSE IF paused THEN "EnforcedPause"
    ELSE IF ~ValidStringLength(newIpfsCID, 2000) THEN "InvalidStringLength"
    ELSE IF paymentReceiptHash = 0 THEN "InvalidPaymentReceiptHash"
    ELSE IF PaymentHashUsed(paymentReceiptHash) THEN "PaymentHashAlreadyUsed"
    ELSE IF ~Exists(tokenId) THEN "CertificateNotFound"
    ELSE IF value < defaultCourseAdditionFee THEN "InsufficientPayment"
    ELSE IF ~certificates[tokenId].isValid THEN "CertificateNotFound"
    ELSE ""

\* The checks of updateCertificate.
UpdateCertificateError(sender, tokenId, newIpfsCID, paymentReceiptHash, value) ==
    IF status = ENTERED THEN "ReentrancyGuardReentrantCall"
    ELSE IF paused THEN "EnforcedPause"
    ELSE IF ~ValidStringLength(newIpfsCID, 2000) THEN "InvalidStringLength"
    ELSE IF paymentReceiptHash = 0 THEN "InvalidPaymentReceiptHash"
    ELSE IF PaymentHashUsed(paymentReceiptHash) THEN "PaymentHashAlreadyUsed"
    ELSE IF ~Exists(tokenId) THEN "CertificateNotFound"
    ELSE IF value < defaultCourseAdditionFee THEN "InsufficientPayment"
    ELSE IF ~certificates[tokenId].isValid THEN "CertificateNotFound"
    ELSE IF certificates[tokenId].recipientAddress # sender
        THEN "Only certificate owner can update"
    ELSE ""

\* A refresh that also restamps the issue of the certificate.
UpdateCIDAndReissue(cert, newIpfsCID, paymentReceiptHash) ==
    [cert EXCEPT !.ipfsCID = newIpfsCID,
                 !.paymentReceiptHash = paymentReceiptHash,
                 !.lastUpdated = now,
                 !.issuedAt = now]

\* The writes of updateCertificate to the certificate.
UpdateCID(cert, newIpfsCID, paymentReceiptHash) ==
    [cert EXCEPT !.ipfsCID = newIpfsCID,
                 !.paymentReceiptHash = paymentReceiptHash,
                 !.lastUpdated = now]

UpdateCertificate(sender, tokenId, newIpfsCID, paymentReceiptHash, value) ==
    LET c == [NoCall EXCEPT !.op = "updateCertificate", !.sender = sender,
                            !.hash = paymentReceiptHash, !.tokenId = tokenId,
                            !.value = value, !.cid = newIpfsCID,
                            !.required = defaultCourseAdditionFee,
                            !.feePercent = 10, !.payee = platformWallet,
                            !.time = now]
        err == UpdateCertificateError(sender, tokenId, newIpfsCID,
                                      paymentReceiptHash, value)
    IN  /\ call.state = "idle"
        /\ IF err # "" THEN FailAtEntry(c, err)
           ELSE /\ usedPaymentHashes' =
                       MarkPaymentHash(usedPaymentHashes, paymentReceiptHash)
                /\ certificates' = [certificates EXCEPT ![tokenId] =
                       UpdateCID(@, newIpfsCID, paymentReceiptHash)]
                /\ Proceed(c, ProcessCertificatePayment(platformWallet,
                                  defaultCourseAdditionFee, sender, value))
                /\ UNCHANGED <<nextTokenId, userCertificates, certificateCourseExists,
                               tokenBalance, courseCertificatePrices,
                               defaultCertificateFee, defaultCourseAdditionFee,
                               defaultPlatformName,
                               defaultBaseRoute, defaultMetadataBaseURI, tokenURIs, platformWallet, paused>>

\* ------------------------------------------ addMultipleCoursesToCertificate

\* A validation that looks at the first course only.
ValidateFirstCourse(sender, tokenId, courseIds, i) ==
    IF i > Len(courseIds) THEN ""
    ELSE IF ~IsCourseCompleted(sender, courseIds[i]) THEN "CourseNotCompleted"
    ELSE IF <<tokenId, courseIds[i]>> \in certificateCourseExists
        THEN "CourseAlreadyInCertificate"
    ELSE ""

\* The validation loop: the error of the first course that fails a check.
RECURSIVE ValidateCourses(_, _, _, _)
ValidateCourses(sender, tokenId, courseIds, i) ==
    IF i > Len(courseIds) THEN ""
    ELSE IF ~IsCourseCompleted(sender, courseIds[i]) THEN "CourseNotCompleted"
    ELSE IF <<tokenId, courseIds[i]>> \in certificateCourseExists
        THEN "CourseAlreadyInCertificate"
    ELSE ValidateCourses(sender, tokenId, courseIds, i + 1)

\* A batch priced as one course.
BatchFeeOfOneCourse(courseIds) == defaultCourseAdditionFee

\* totalFee of the batch: perCourseFee * courseIds.length
BatchFee(courseIds) == defaultCourseAdditionFee * Len(courseIds)

\* The checks of addMultipleCoursesToCertificate.
AddMultipleCoursesError(sender, courseIds, ipfsCID, paymentReceiptHash, value) ==
    IF status = ENTERED THEN "ReentrancyGuardReentrantCall"
    ELSE IF paused THEN "EnforcedPause"
    ELSE IF ~ValidStringLength(ipfsCID, 2000) THEN "InvalidStringLength"
    ELSE IF Len(courseIds) = 0 THEN "EmptyCoursesArray"
    ELSE IF paymentReceiptHash = 0 THEN "InvalidPaymentReceiptHash"
    ELSE IF PaymentHashUsed(paymentReceiptHash) THEN "PaymentHashAlreadyUsed"
    ELSE IF userCertificates[sender] = 0 THEN "NoCertificateExists"
    ELSE IF ~certificates[userCertificates[sender]].isValid THEN "CertificateNotFound"
    ELSE IF value < BatchFee(courseIds) THEN "InsufficientPayment"
    ELSE ValidateCourses(sender, userCertificates[sender], courseIds, 1)

\* A batch that counts one course, however many it pushes.
AddCoursesCountingOne(cert, courseIds, ipfsCID, paymentReceiptHash) ==
    [cert EXCEPT !.completedCourses = @ \o courseIds,
                 !.totalCoursesCompleted = @ + 1,
                 !.lastUpdated = now,
                 !.ipfsCID = ipfsCID,
                 !.paymentReceiptHash = paymentReceiptHash]

\* The writes of the batch to the certificate: every course is pushed, and the
\* counter and the metadata are updated once.
AddCourses(cert, courseIds, ipfsCID, paymentReceiptHash) ==
    [cert EXCEPT !.completedCourses = @ \o courseIds,
                 !.totalCoursesCompleted = @ + Len(courseIds),
                 !.lastUpdated = now,
                 !.ipfsCID = ipfsCID,
                 !.paymentReceiptHash = paymentReceiptHash]

AddMultipleCoursesToCertificate(sender, courseIds, ipfsCID, paymentReceiptHash, value) ==
    LET tokenId == userCertificates[sender]
        totalFee == BatchFee(courseIds)
        c == [NoCall EXCEPT !.op = "addMultipleCoursesToCertificate",
                            !.sender = sender, !.hash = paymentReceiptHash,
                            !.courseIds = courseIds, !.tokenId = tokenId,
                            !.value = value, !.cid = ipfsCID,
                            !.required = totalFee, !.feePercent = 10,
                            !.payee = platformWallet, !.time = now]
        err == AddMultipleCoursesError(sender, courseIds, ipfsCID,
                                       paymentReceiptHash, value)
    IN  /\ call.state = "idle"
        /\ IF err # "" THEN FailAtEntry(c, err)
           ELSE /\ usedPaymentHashes' =
                       MarkPaymentHash(usedPaymentHashes, paymentReceiptHash)
                /\ certificates' = [certificates EXCEPT ![tokenId] =
                       AddCourses(@, courseIds, ipfsCID, paymentReceiptHash)]
                /\ certificateCourseExists' = certificateCourseExists \cup
                       {<<tokenId, courseIds[i]>> : i \in 1..Len(courseIds)}
                /\ Proceed(c, ProcessCertificatePayment(platformWallet, totalFee,
                                                        sender, value))
                /\ UNCHANGED <<nextTokenId, userCertificates, tokenBalance,
                               courseCertificatePrices, defaultCertificateFee,
                               defaultCourseAdditionFee, defaultPlatformName,
                               defaultBaseRoute, defaultMetadataBaseURI, tokenURIs,
                               platformWallet, paused>>

\* --------------------------------------------------------- admin functions

\* An onlyOwner that lets every caller through.
OnlyOwnerErrorAnyone(sender) == ""

\* modifier onlyOwner
OnlyOwnerError(sender) ==
    IF sender # ContractOwner THEN "OwnableUnauthorizedAccount" ELSE ""

\* An admin call that returns: it makes no external call.
Return(op, sender, tokenId) ==
    /\ call' = [NoCall EXCEPT !.op = op, !.sender = sender, !.tokenId = tokenId,
                              !.state = "done", !.time = now, !.before = Storage]
    /\ UNCHANGED <<status, contractBalance, now>>

Pause(sender) ==
    LET c == [NoCall EXCEPT !.op = "pause", !.sender = sender]
        err == IF OnlyOwnerError(sender) # "" THEN OnlyOwnerError(sender)
               ELSE IF paused THEN "EnforcedPause" ELSE ""
    IN  /\ call.state = "idle"
        /\ IF err # "" THEN FailAtEntry(c, err)
           ELSE /\ paused' = TRUE
                /\ Return("pause", sender, 0)
                /\ UNCHANGED <<nextTokenId, certificates, userCertificates,
                               usedPaymentHashes, certificateCourseExists,
                               courseCertificatePrices, defaultCertificateFee,
                               defaultCourseAdditionFee, defaultPlatformName,
                               defaultBaseRoute, defaultMetadataBaseURI, tokenURIs,
                               platformWallet, tokenBalance>>

Unpause(sender) ==
    LET c == [NoCall EXCEPT !.op = "unpause", !.sender = sender]
        err == IF OnlyOwnerError(sender) # "" THEN OnlyOwnerError(sender)
               ELSE IF ~paused THEN "ExpectedPause" ELSE ""
    IN  /\ call.state = "idle"
        /\ IF err # "" THEN FailAtEntry(c, err)
           ELSE /\ paused' = FALSE
                /\ Return("unpause", sender, 0)
                /\ UNCHANGED <<nextTokenId, certificates, userCertificates,
                               usedPaymentHashes, certificateCourseExists,
                               courseCertificatePrices, defaultCertificateFee,
                               defaultCourseAdditionFee, defaultPlatformName,
                               defaultBaseRoute, defaultMetadataBaseURI, tokenURIs,
                               platformWallet, tokenBalance>>

\* A revocation that flips the flag.
ToggleValid(cert) == [cert EXCEPT !.isValid = ~@]

\* certificates[tokenId].isValid = false
SetInvalid(cert) == [cert EXCEPT !.isValid = FALSE]

RevokeCertificate(sender, tokenId) ==
    LET c == [NoCall EXCEPT !.op = "revokeCertificate", !.sender = sender]
        err == IF OnlyOwnerError(sender) # "" THEN OnlyOwnerError(sender)
               ELSE IF ~Exists(tokenId) THEN "CertificateNotFound" ELSE ""
    IN  /\ call.state = "idle"
        /\ IF err # "" THEN FailAtEntry(c, err)
           ELSE /\ certificates' = [certificates EXCEPT ![tokenId] = SetInvalid(@)]
                /\ Return("revokeCertificate", sender, tokenId)
                /\ UNCHANGED <<nextTokenId, userCertificates, usedPaymentHashes,
                               certificateCourseExists, courseCertificatePrices,
                               defaultCertificateFee, defaultCourseAdditionFee,
                               defaultPlatformName,
                               defaultBaseRoute, defaultMetadataBaseURI, tokenURIs, platformWallet, paused,
                               tokenBalance>>

\* A base route update that stamps the record with the time of its issue.
SetBaseRouteBackdated(cert, newBaseRoute) ==
    [cert EXCEPT !.baseRoute = newBaseRoute, !.lastUpdated = cert.issuedAt]

\* certificates[tokenId].baseRoute = newBaseRoute, with lastUpdated
SetBaseRoute(cert, newBaseRoute) ==
    [cert EXCEPT !.baseRoute = newBaseRoute, !.lastUpdated = now]

UpdateBaseRoute(sender, tokenId, newBaseRoute) ==
    LET c == [NoCall EXCEPT !.op = "updateBaseRoute", !.sender = sender]
        err == IF OnlyOwnerError(sender) # "" THEN OnlyOwnerError(sender)
               ELSE IF ~ValidStringLength(newBaseRoute, 200) THEN "InvalidStringLength"
               ELSE IF ~Exists(tokenId) THEN "CertificateNotFound" ELSE ""
    IN  /\ call.state = "idle"
        /\ IF err # "" THEN FailAtEntry(c, err)
           ELSE /\ certificates' = [certificates EXCEPT ![tokenId] =
                       SetBaseRoute(@, newBaseRoute)]
                /\ Return("updateBaseRoute", sender, tokenId)
                /\ UNCHANGED <<nextTokenId, userCertificates, usedPaymentHashes,
                               certificateCourseExists, courseCertificatePrices,
                               defaultCertificateFee, defaultCourseAdditionFee,
                               defaultPlatformName,
                               defaultBaseRoute, defaultMetadataBaseURI, tokenURIs, platformWallet, paused,
                               tokenBalance>>

\* The loop of batchUpdateBaseRoute: the ids that do not exist are skipped.
BatchUpdateBaseRoute(sender, tokenIds, newBaseRoute) ==
    LET c == [NoCall EXCEPT !.op = "batchUpdateBaseRoute", !.sender = sender]
        err == IF OnlyOwnerError(sender) # "" THEN OnlyOwnerError(sender)
               ELSE IF ~ValidStringLength(newBaseRoute, 200) THEN "InvalidStringLength"
               ELSE IF Len(tokenIds) = 0 THEN "EmptyCoursesArray" ELSE ""
        listed == {tokenIds[i] : i \in DOMAIN tokenIds}
    IN  /\ call.state = "idle"
        /\ IF err # "" THEN FailAtEntry(c, err)
           ELSE /\ certificates' = [t \in DOMAIN certificates |->
                       IF t \in listed /\ Exists(t)
                       THEN SetBaseRoute(certificates[t], newBaseRoute)
                       ELSE certificates[t]]
                /\ Return("batchUpdateBaseRoute", sender, 0)
                /\ UNCHANGED <<nextTokenId, userCertificates, usedPaymentHashes,
                               certificateCourseExists, courseCertificatePrices,
                               defaultCertificateFee, defaultCourseAdditionFee,
                               defaultPlatformName,
                               defaultBaseRoute, defaultMetadataBaseURI, tokenURIs, platformWallet, paused,
                               tokenBalance>>

\* The checks the price setters share.
PriceError(price) ==
    IF price = 0 THEN "ZeroAmount"
    ELSE IF price > MAX_CERTIFICATE_PRICE THEN "ExceedsMaxPrice"
    ELSE ""

SetCourseCertificatePrice(sender, courseId, price) ==
    LET c == [NoCall EXCEPT !.op = "setCourseCertificatePrice", !.sender = sender]
        err == IF PriceError(price) # "" THEN PriceError(price)
               ELSE IF CourseCreator(courseId) # sender
                    THEN "Only course creator can set price" ELSE ""
    IN  /\ call.state = "idle"
        /\ IF err # "" THEN FailAtEntry(c, err)
           ELSE /\ courseCertificatePrices' =
                       [courseCertificatePrices EXCEPT ![courseId] = price]
                /\ Return("setCourseCertificatePrice", sender, 0)
                /\ UNCHANGED <<nextTokenId, certificates, userCertificates,
                               usedPaymentHashes, certificateCourseExists,
                               defaultCertificateFee, defaultCourseAdditionFee,
                               defaultPlatformName,
                               defaultBaseRoute, defaultMetadataBaseURI, tokenURIs, platformWallet, paused,
                               tokenBalance>>

SetDefaultCourseAdditionFee(sender, newFee) ==
    LET c == [NoCall EXCEPT !.op = "setDefaultCourseAdditionFee", !.sender = sender]
        err == IF OnlyOwnerError(sender) # "" THEN OnlyOwnerError(sender)
               ELSE PriceError(newFee)
    IN  /\ call.state = "idle"
        /\ IF err # "" THEN FailAtEntry(c, err)
           ELSE /\ defaultCourseAdditionFee' = newFee
                /\ Return("setDefaultCourseAdditionFee", sender, 0)
                /\ UNCHANGED <<nextTokenId, certificates, userCertificates,
                               usedPaymentHashes, certificateCourseExists,
                               courseCertificatePrices, defaultCertificateFee,
                               defaultPlatformName,
                               defaultBaseRoute, defaultMetadataBaseURI, tokenURIs, platformWallet, paused,
                               tokenBalance>>

\* The checks of a fee setter without the ceiling.
SetDefaultCertificateFeeErrorNoCeiling(sender, newFee) ==
    IF OnlyOwnerError(sender) # "" THEN OnlyOwnerError(sender)
    ELSE IF newFee = 0 THEN "ZeroAmount"
    ELSE ""

\* The checks of setDefaultCertificateFee.
SetDefaultCertificateFeeError(sender, newFee) ==
    IF OnlyOwnerError(sender) # "" THEN OnlyOwnerError(sender)
    ELSE IF newFee = 0 THEN "ZeroAmount"
    ELSE IF newFee > MAX_CERTIFICATE_PRICE THEN "ExceedsMaxPrice"
    ELSE ""

SetDefaultCertificateFee(sender, newFee) ==
    LET c == [NoCall EXCEPT !.op = "setDefaultCertificateFee", !.sender = sender]
        err == SetDefaultCertificateFeeError(sender, newFee)
    IN  /\ call.state = "idle"
        /\ IF err # "" THEN FailAtEntry(c, err)
           ELSE /\ defaultCertificateFee' = newFee
                /\ Return("setDefaultCertificateFee", sender, 0)
                /\ UNCHANGED <<nextTokenId, certificates, userCertificates,
                               usedPaymentHashes, certificateCourseExists,
                               courseCertificatePrices, defaultCourseAdditionFee,
                               defaultPlatformName, defaultBaseRoute,
                               defaultMetadataBaseURI, tokenURIs,
                               platformWallet, paused, tokenBalance>>

\* The checks of setPlatformWallet.
SetPlatformWalletError(sender, newWallet) ==
    IF OnlyOwnerError(sender) # "" THEN OnlyOwnerError(sender)
    ELSE IF newWallet = 0 THEN "InvalidAddress"
    ELSE ""

SetPlatformWallet(sender, newWallet) ==
    LET c == [NoCall EXCEPT !.op = "setPlatformWallet", !.sender = sender]
        err == SetPlatformWalletError(sender, newWallet)
    IN  /\ call.state = "idle"
        /\ IF err # "" THEN FailAtEntry(c, err)
           ELSE /\ platformWallet' = newWallet
                /\ Return("setPlatformWallet", sender, 0)
                /\ UNCHANGED <<nextTokenId, certificates, userCertificates,
                               usedPaymentHashes, certificateCourseExists,
                               courseCertificatePrices, defaultCertificateFee,
                               defaultCourseAdditionFee, defaultPlatformName,
                               defaultBaseRoute, defaultMetadataBaseURI, tokenURIs,
                               paused, tokenBalance>>

SetDefaultPlatformName(sender, newPlatformName) ==
    LET c == [NoCall EXCEPT !.op = "setDefaultPlatformName", !.sender = sender]
        err == IF OnlyOwnerError(sender) # "" THEN OnlyOwnerError(sender)
               ELSE IF BytesLength(newPlatformName) = 0
                       \/ BytesLength(newPlatformName) > 100
                    THEN "InvalidStringLength"
               ELSE ""
    IN  /\ call.state = "idle"
        /\ IF err # "" THEN FailAtEntry(c, err)
           ELSE /\ defaultPlatformName' = newPlatformName
                /\ Return("setDefaultPlatformName", sender, 0)
                /\ UNCHANGED <<nextTokenId, certificates, userCertificates,
                               usedPaymentHashes, certificateCourseExists,
                               courseCertificatePrices, defaultCertificateFee,
                               defaultCourseAdditionFee, defaultBaseRoute,
                               defaultMetadataBaseURI, tokenURIs,
                               platformWallet, paused, tokenBalance>>

UpdateDefaultBaseRoute(sender, newBaseRoute) ==
    LET c == [NoCall EXCEPT !.op = "updateDefaultBaseRoute", !.sender = sender]
        err == IF OnlyOwnerError(sender) # "" THEN OnlyOwnerError(sender)
               ELSE IF ~ValidStringLength(newBaseRoute, 200) THEN "InvalidStringLength"
               ELSE ""
    IN  /\ call.state = "idle"
        /\ IF err # "" THEN FailAtEntry(c, err)
           ELSE /\ defaultBaseRoute' = newBaseRoute
                /\ Return("updateDefaultBaseRoute", sender, 0)
                /\ UNCHANGED <<nextTokenId, certificates, userCertificates,
                               usedPaymentHashes, certificateCourseExists,
                               courseCertificatePrices, defaultCertificateFee,
                               defaultCourseAdditionFee, defaultPlatformName,
                               defaultMetadataBaseURI, tokenURIs,
                               platformWallet, paused, tokenBalance>>

UpdateDefaultMetadataBaseURI(sender, newBaseURI) ==
    LET c == [NoCall EXCEPT !.op = "updateDefaultMetadataBaseURI", !.sender = sender]
        err == OnlyOwnerError(sender)
    IN  /\ call.state = "idle"
        /\ IF err # "" THEN FailAtEntry(c, err)
           ELSE /\ defaultMetadataBaseURI' = newBaseURI
                /\ Return("updateDefaultMetadataBaseURI", sender, 0)
                /\ UNCHANGED <<nextTokenId, certificates, userCertificates,
                               usedPaymentHashes, certificateCourseExists,
                               courseCertificatePrices, defaultCertificateFee,
                               defaultCourseAdditionFee, defaultPlatformName,
                               defaultBaseRoute, tokenURIs,
                               platformWallet, paused, tokenBalance>>

SetTokenURI(sender, tokenId, tokenURI) ==
    LET c == [NoCall EXCEPT !.op = "setTokenURI", !.sender = sender]
        err == IF OnlyOwnerError(sender) # "" THEN OnlyOwnerError(sender)
               ELSE IF ~Exists(tokenId) THEN "CertificateNotFound" ELSE ""
    IN  /\ call.state = "idle"
        /\ IF err # "" THEN FailAtEntry(c, err)
           ELSE /\ tokenURIs' = {p \in tokenURIs : p[1] # tokenId}
                                    \cup {<<tokenId, tokenURI>>}
                /\ Return("setTokenURI", sender, tokenId)
                /\ UNCHANGED <<nextTokenId, certificates, userCertificates,
                               usedPaymentHashes, certificateCourseExists,
                               courseCertificatePrices, defaultCertificateFee,
                               defaultCourseAdditionFee, defaultPlatformName,
                               defaultBaseRoute, defaultMetadataBaseURI,
                               platformWallet, paused, tokenBalance>>

\* ---------------------------------------------------------- token transfer

\* An _update that lets the token move.
UpdateErrorTransferable(from, to) == ""

\* The override of _update: a move between two non-zero addresses reverts.
UpdateError(from, to) ==
    IF from # 0 /\ to # 0 THEN "Certificates are soulbound" ELSE ""

\* ERC1155.safeTransferFrom(from, to, tokenId, 1, ""), called by from or by an
\* operator; approved tells whether from has approved the caller.
SafeTransferFrom(sender, from, to, tokenId, approved) ==
    LET c == [NoCall EXCEPT !.op = "safeTransferFrom", !.sender = sender]
        err == IF from # sender /\ ~approved THEN "ERC1155MissingApprovalForAll"
               ELSE IF to = 0 THEN "ERC1155InvalidReceiver"
               ELSE IF from = 0 THEN "ERC1155InvalidSender"
               ELSE IF UpdateError(from, to) # "" THEN UpdateError(from, to)
               ELSE IF <<from, tokenId>> \notin tokenBalance
                    THEN "ERC1155InsufficientBalance"
               ELSE ""
    IN  /\ call.state = "idle"
        /\ IF err # "" THEN FailAtEntry(c, err)
           ELSE /\ tokenBalance' = (tokenBalance \ {<<from, tokenId>>})
                                       \cup {<<to, tokenId>>}
                /\ Return("safeTransferFrom", sender, tokenId)
                /\ UNCHANGED <<nextTokenId, certificates, userCertificates,
                               usedPaymentHashes, certificateCourseExists,
                               courseCertificatePrices, defaultCertificateFee,
                               defaultCourseAdditionFee, defaultPlatformName,
                               defaultBaseRoute, defaultMetadataBaseURI, tokenURIs,
                               platformWallet, paused>>

\* --------------------------------------------------------- external calls

\* The callee of the pending external call returns normally.
CalleeAccepts ==
    /\ call.state = "running"
    /\ call.pending # <<>>
    /\ LET leg == Head(call.pending)
           rest == Tail(call.pending)
       IN  /\ contractBalance' = contractBalance - leg.amount
           /\ call' = [call EXCEPT !.pending = rest,
                                   !.legs = Append(@, leg),
                                   !.state = IF rest = <<>> THEN "done" ELSE "running"]
           /\ status' = IF rest = <<>> THEN NOT_ENTERED ELSE ENTERED
    /\ UNCHANGED <<storageVars, now>>

\* require(success, ...): the error of a failed external call
TransferError(kind, feePercent) ==
    CASE kind = "platform" -> "Platform fee transfer failed"
      [] kind = "recipient" /\ feePercent = 10 -> "Creator payment failed"
      [] kind = "recipient" -> "Recipient payment failed"
      [] kind = "refund" -> "Refund failed"
      [] OTHER -> "ERC1155InvalidReceiver"

\* The callee of the pending external call fails: the transaction reverts.
CalleeRejects ==
    /\ call.state = "running"
    /\ call.pending # <<>>
    /\ Revert(call.before)
    /\ status' = NOT_ENTERED
    /\ call' = [call EXCEPT !.state = "reverted",
                            !.err = TransferError(Head(call.pending).kind, call.feePercent),
                            !.pending = <<>>, !.legs = <<>>]
    /\ UNCHANGED now

\* The first check of every nonReentrant function.
NonReentrantError == IF status = ENTERED THEN "ReentrancyGuardReentrantCall" ELSE ""

\* The callee of the pending external call calls a nonReentrant function.
CalleeReenters(op) ==
    /\ call.state = "running"
    /\ call.pending # <<>>
    /\ NonReentrantError # ""
    /\ call' = [call EXCEPT !.reentered = NonReentrantError]
    /\ UNCHANGED <<storageVars, status, contractBalance, now>>

\* The callee of the pending external call is the contract owner and calls
\* pause(), which is not nonReentrant.
CalleePauses ==
    /\ call.state = "running"
    /\ call.pending # <<>>
    /\ OnlyOwnerError(Head(call.pending).to) = ""
    /\ ~paused
    /\ paused' = TRUE
    /\ UNCHANGED <<nextTokenId, certificates, userCertificates, usedPaymentHashes,
                   certificateCourseExists, courseCertificatePrices,
                   defaultCertificateFee, defaultCourseAdditionFee,
                   defaultPlatformName,
                   defaultBaseRoute, defaultMetadataBaseURI, tokenURIs, platformWallet, tokenBalance,
                   status, contractBalance, now, call>>

\* ------------------------------------------------------------------ time

\* The caller has seen the outcome of the transaction.
EndTransaction ==
    /\ call.state \in {"done", "reverted"}
    /\ call' = NoCall
    /\ UNCHANGED <<storageVars, status, contractBalance, now>>

Tick ==
    /\ call.state = "idle"
    /\ now < MaxTime
    /\ now' = now + 1
    /\ UNCHANGED <<storageVars, status, contractBalance, call>>

\* ------------------------------------------------------------ the client

\* getCourseCertificatePrice(courseId), the view the client reads
GetCourseCertificatePrice(courseId) ==
    LET creatorPrice == courseCertificatePrices[courseId]
    IN  IF creatorPrice > 0 THEN creatorPrice ELSE defaultCertificateFee

\* The client's getCertificatePrice: the view's answer, whatever the operation.
ClientGetCertificatePrice(courseId, isFirstCertificate) ==
    GetCourseCertificatePrice(courseId)

\* A breakdown at the fee of the mint, whatever the operation.
PriceBreakdownFlatFee(basePrice, isFirstCertificate) ==
    [ basePrice |-> basePrice,
      platformFeePercentage |-> 10,
      platformFee |-> (basePrice * (10 * 100)) \div 10000,
      creatorFee |-> basePrice - ((basePrice * (10 * 100)) \div 10000),
      totalRequired |-> basePrice ]

\* The arithmetic of the client's calculateCertificatePrice on a base price.
PriceBreakdown(basePrice, isFirstCertificate) ==
    LET platformFeePercentage == IF isFirstCertificate THEN 10 ELSE 2
        platformFee == (basePrice * (platformFeePercentage * 100)) \div 10000
        creatorFee == basePrice - platformFee
    IN  [ basePrice |-> basePrice,
          platformFeePercentage |-> platformFeePercentage,
          platformFee |-> platformFee,
          creatorFee |-> creatorFee,
          totalRequired |-> basePrice ]

\* The client's calculateCertificatePrice(courseId, isFirstCertificate)
CalculateCertificatePrice(courseId, isFirstCertificate) ==
    PriceBreakdown(ClientGetCertificatePrice(courseId, isFirstCertificate),
                   isFirstCertificate)

\* isCourseInCertificate(tokenId, courseId), the view the client reads
IsCourseInCertificate(tokenId, courseId) ==
    IF ~Exists(tokenId) THEN FALSE
    ELSE <<tokenId, courseId>> \in certificateCourseExists

\* The client's checkEligibilityForCertificate(userAddress, courseId), its
\* reads of the contracts succeeding.
CheckEligibilityForCertificate(userAddress, courseId) ==
    LET tokenId == userCertificates[userAddress]
        isFirstCertificate == tokenId = 0
    IN  IF ~IsCourseCompleted(userAddress, courseId)
        THEN [eligible |-> FALSE, isFirstCertificate |-> FALSE,
              reason |-> "Course not completed"]
        ELSE IF LicenseCourseId(userAddress, courseId) = 0
        THEN [eligible |-> FALSE, isFirstCertificate |-> FALSE,
              reason |-> "No license found for this course"]
        ELSE IF tokenId > 0 /\ IsCourseInCertificate(tokenId, courseId)
        THEN [eligible |-> FALSE, isFirstCertificate |-> FALSE,
              reason |-> "Course already in certificate"]
        ELSE [eligible |-> TRUE, isFirstCertificate |-> isFirstCertificate,
              reason |-> ""]

\* ----------------------------------------------------------- the indexer

\* The revenue handleCourseAddedToCertificate attributes for an event with the
\* given pricePaid, totalCourses being the length of completedCourses it has
\* read back: 10% when the record holds one course, 5% otherwise, truncated.
HandleCourseAddedToCertificate(addPrice, totalCourses) ==
    LET isFirstCourse == totalCourses = 1
        platformFeePercent == IF isFirstCourse THEN 10 ELSE 5
        platformFee == (addPrice * platformFeePercent) \div 100
        creatorRevenue == addPrice - platformFee
    IN  [ platformFee |-> platformFee, creatorRevenue |-> creatorRevenue ]

\* --------------------------------------------------------- specification

Init ==
    /\ nextTokenId = 1
    /\ certificates = << >>
    /\ userCertificates = [a \in Address |-> 0]
    /\ usedPaymentHashes = {}
    /\ certificateCourseExists = {}
    /\ courseCertificatePrices = [c \in Course |-> 0]
    /\ defaultCertificateFee = InitialCertificateFee
    /\ defaultCourseAdditionFee = InitialCourseAdditionFee
    /\ defaultPlatformName = InitialPlatformName
    /\ defaultBaseRoute = InitialBaseRoute
    /\ defaultMetadataBaseURI = EmptyString
    /\ tokenURIs = {}
    /\ platformWallet = InitialPlatformWallet
    /\ paused = FALSE
    /\ status = NOT_ENTERED
    /\ tokenBalance = {}
    /\ contractBalance = 0
    /\ now = 1
    /\ call = NoCall

\* The token ids a caller may pass: the allocated ones, 0 and the next free one.
TokenIdInputs == 0..nextTokenId

\* The payment hashes a caller may pass: zero, a used one, or a fresh one.  The
\* hashes are opaque, so the fresh one is the least unused.
HashInputs ==
    {h \in PaymentHash :
        \/ h = 0
        \/ h \in usedPaymentHashes
        \/ \A g \in PaymentHash \ (usedPaymentHashes \cup {0}) : h <= g}

\* The base routes the owner may pass: empty, and two of valid length.
RouteInputs == {EmptyString, Str("/verify", 7), Str("/v2", 3)}

\* The token id arrays of a batch base route update.
TokenIdBatchInputs == UNION {[1..n -> TokenIdInputs] : n \in 0..MaxBatch}

\* The course id arrays of a batch: up to MaxBatch courses, repetitions included.
BatchInputs == UNION {[1..n -> Course] : n \in 0..MaxBatch}

\* The calls of the certificate holders, with strings drawn from the given pools.
UserCalls(names, cids) ==
    \/ \E sender \in Address, courseId \in Course, recipientName \in names,
          ipfsCID \in cids, paymentReceiptHash \in HashInputs, baseRoute \in Routes :
          \E value \in ValueChoices(GetCertificatePrice(courseId)) :
             MintOrUpdateCertificate(sender, courseId, recipientName, ipfsCID,
                 paymentReceiptHash, baseRoute, value)
    \/ \E sender \in Address, tokenId \in TokenIdInputs, newIpfsCID \in cids,
          paymentReceiptHash \in HashInputs,
          value \in ValueChoices(defaultCourseAdditionFee) :
             UpdateCertificate(sender, tokenId, newIpfsCID, paymentReceiptHash, value)
    \/ \E sender \in Address, courseIds \in BatchInputs, ipfsCID \in cids,
          paymentReceiptHash \in HashInputs :
          \E value \in ValueChoices(BatchFee(courseIds)) :
             AddMultipleCoursesToCertificate(sender, courseIds, ipfsCID,
                                             paymentReceiptHash, value)

\* The attempts to move a token: by its holder or by an operator, to any address.
Transfers ==
    \E sender \in Address, from \in 0..NumAddresses, to \in 0..NumAddresses :
       \E tokenId \in TokenIdInputs, approved \in BOOLEAN :
          SafeTransferFrom(sender, from, to, tokenId, approved)

\* The steps of the external calls of the transaction in progress.
ExternalCalls ==
    \/ CalleeAccepts
    \/ CalleeRejects
    \/ CalleePauses
    \/ \E op \in {"mintOrUpdateCertificate", "updateCertificate",
                  "addMultipleCoursesToCertificate"} : CalleeReenters(op)

\* The ledger under its initial prices.
Next ==
    \/ UserCalls(Names, CIDs)
    \/ \E sender \in Address : Pause(sender)
    \/ \E sender \in Address : Unpause(sender)
    \/ \E sender \in Address, tokenId \in TokenIdInputs : RevokeCertificate(sender, tokenId)
    \/ Transfers
    \/ ExternalCalls
    \/ EndTransaction
    \/ Tick

\* The ledger under changing prices, with one certificate image and one name.
NextPrices ==
    \/ UserCalls({Str("Ann", 3)}, {Str("QmA", 46)})
    \/ \E sender \in Address, courseId \in Course, price \in PriceInputs :
          SetCourseCertificatePrice(sender, courseId, price)
    \/ \E sender \in Address, newFee \in PriceInputs :
          SetDefaultCourseAdditionFee(sender, newFee)
    \/ ExternalCalls
    \/ EndTransaction

\* The ledger under the owner's record administration: revocation and base
\* route updates, with one certificate image and one name.
NextAdmin ==
    \/ UserCalls({Str("Ann", 3)}, {Str("QmA", 46)})
    \/ \E sender \in Address, tokenId \in TokenIdInputs : RevokeCertificate(sender, tokenId)
    \/ \E sender \in Address, tokenId \in TokenIdInputs, newBaseRoute \in RouteInputs :
          UpdateBaseRoute(sender, tokenId, newBaseRoute)
    \/ \E sender \in Address, tokenIds \in TokenIdBatchInputs, newBaseRoute \in RouteInputs :
          BatchUpdateBaseRoute(sender, tokenIds, newBaseRoute)
    \/ ExternalCalls
    \/ EndTransaction
    \/ Tick

\* The inputs of the configuration setters: the zero address and a wallet, an
\* empty and a valid platform name, an empty and a valid route, a metadata URI.
WalletInputs == {0, 2}
PlatformNameInputs == {EmptyString, Str("Edu2", 4)}
DefaultRouteInputs == {EmptyString, Str("/v2", 3)}
URIInputs == {Str("https://api", 11)}
ConfigSenders == {ContractOwner, 2}
ConfigCourses == {2, 3}

\* The configuration under the calls of the owner and of another address, who
\* mints one certificate for the calls on a record to have a target.
NextConfig ==
    \/ \E paymentReceiptHash \in HashInputs :
          MintOrUpdateCertificate(2, 1, Str("Ann", 3), Str("QmA", 46),
              paymentReceiptHash, Str("/verify", 7), GetCertificatePrice(1))
    \/ \E sender \in ConfigSenders, newFee \in PriceInputs :
          SetDefaultCertificateFee(sender, newFee)
    \/ \E sender \in ConfigSenders, newFee \in PriceInputs :
          SetDefaultCourseAdditionFee(sender, newFee)
    \/ \E sender \in ConfigSenders, courseId \in ConfigCourses, price \in PriceInputs :
          SetCourseCertificatePrice(sender, courseId, price)
    \/ \E sender \in ConfigSenders, newWallet \in WalletInputs :
          SetPlatformWallet(sender, newWallet)
    \/ \E sender \in ConfigSenders, newPlatformName \in PlatformNameInputs :
          SetDefaultPlatformName(sender, newPlatformName)
    \/ \E sender \in ConfigSenders, newBaseRoute \in DefaultRouteInputs :
          UpdateDefaultBaseRoute(sender, newBaseRoute)
    \/ \E sender \in ConfigSenders, newBaseURI \in URIInputs :
          UpdateDefaultMetadataBaseURI(sender, newBaseURI)
    \/ \E sender \in ConfigSenders, tokenId \in TokenIdInputs, tokenURI \in URIInputs :
          SetTokenURI(sender, tokenId, tokenURI)
    \/ \E sender \in ConfigSenders, tokenId \in TokenIdInputs, newBaseRoute \in DefaultRouteInputs :
          UpdateBaseRoute(sender, tokenId, newBaseRoute)
    \/ \E sender \in ConfigSenders, tokenIds \in TokenIdBatchInputs, newBaseRoute \in DefaultRouteInputs :
          BatchUpdateBaseRoute(sender, tokenIds, newBaseRoute)
    \/ \E sender \in ConfigSenders, tokenId \in TokenIdInputs :
          RevokeCertificate(sender, tokenId)
    \/ \E sender \in ConfigSenders : Pause(sender)
    \/ \E sender \in ConfigSenders : Unpause(sender)
    \/ ExternalCalls
    \/ EndTransaction

Spec == Init /\ [][Next]_vars

SpecConfig == Init /\ [][NextConfig]_vars

SpecAdmin == Init /\ [][NextAdmin]_vars

SpecPrices == Init /\ [][NextPrices]_vars

\* ------------------------------------------------------------- properties

PaidOps == {"mintOrUpdateCertificate", "updateCertificate",
            "addMultipleCoursesToCertificate"}

TransferErrors == {"Platform fee transfer failed", "Recipient payment failed",
                   "Creator payment failed",
                   "Refund failed", "ERC1155InvalidReceiver"}

\* The call got through its checks: it is at its external calls, or has returned.
Passed(op) == call.op = op /\ call.state \in {"running", "done"}

\* The transfers of the given kind the call has made, and what they add up to.
LegsOf(kind) == {i \in DOMAIN call.legs : call.legs[i].kind = kind}
AmountOf(kind) ==
    IF LegsOf(kind) = {} THEN 0 ELSE call.legs[CHOOSE i \in LegsOf(kind) : TRUE].amount
AtMostOneLeg(kind, to) ==
    /\ Cardinality(LegsOf(kind)) <= 1
    /\ \A i \in LegsOf(kind) : call.legs[i].to = to /\ call.legs[i].amount > 0

\* The price _getCertificatePrice resolved for the course when the call began.
PriceBefore(courseId) ==
    IF call.before.courseCertificatePrices[courseId] > 0
    THEN call.before.courseCertificatePrices[courseId]
    ELSE call.before.defaultCertificateFee

\* C1 (P1, uniqueness): in every reachable state every address owns at most one
\* certificate record, the addresses whose record was revoked included.
C1_OneCertificatePerUser ==
    \A a \in Address :
        Cardinality({t \in DOMAIN certificates :
                        certificates[t].recipientAddress = a}) <= 1

\* Two addresses own a record, one record is revoked and its owner has just called
\* mintOrUpdateCertificate again.
C1_Witness ==
    /\ Len(certificates) = 2
    /\ call.op = "mintOrUpdateCertificate"
    /\ call.state = "reverted"
    /\ \E t \in DOMAIN certificates :
          /\ ~certificates[t].isValid
          /\ certificates[t].recipientAddress = call.sender

\* C2 (P2, no duplicate items): in every reachable state no record's
\* completedCourses repeats a course id.
C2_NoDuplicateCourses ==
    \A t \in DOMAIN certificates :
        \A i, j \in DOMAIN certificates[t].completedCourses :
            i # j => certificates[t].completedCourses[i]
                        # certificates[t].completedCourses[j]

\* C3 (P3, payment replay) as claimed: every call of a paying operation that
\* passes a used payment hash ends with PaymentHashAlreadyUsed.
C3_ReplayFailsWithPaymentHashAlreadyUsed ==
    call.state = "idle" =>
        \A h \in usedPaymentHashes, sender \in Address, ipfsCID \in CIDs :
            /\ \A courseId \in Course, recipientName \in Names :
               \A value \in ValueChoices(GetCertificatePrice(courseId)) :
                  MintOrUpdateOutcome(sender, courseId, recipientName, ipfsCID, h, value)
                      = "PaymentHashAlreadyUsed"
            /\ \A tokenId \in TokenIdInputs,
                  value \in ValueChoices(defaultCourseAdditionFee) :
                  UpdateCertificateError(sender, tokenId, ipfsCID, h, value)
                      = "PaymentHashAlreadyUsed"
            /\ \A courseIds \in BatchInputs :
                  \A value \in ValueChoices(defaultCourseAdditionFee * Len(courseIds)) :
                     AddMultipleCoursesError(sender, courseIds, ipfsCID, h, value)
                         = "PaymentHashAlreadyUsed"

\* A check that comes before the replay check rejects the call.
RejectedEarlier(ipfsCID) ==
    status = ENTERED \/ paused \/ ~ValidStringLength(ipfsCID, 2000)

\* The error of a replayed call: it fails, and with PaymentHashAlreadyUsed unless
\* an earlier check rejects it.
ReplayError(err, earlier) ==
    /\ err # ""
    /\ ~earlier => err = "PaymentHashAlreadyUsed"
    /\ earlier => err \in {"ReentrancyGuardReentrantCall", "EnforcedPause",
                           "InvalidStringLength", "EmptyCoursesArray"}

\* C3 (P3, payment replay) as amended: a paying operation that gets through its
\* checks consumes a non-zero hash that was unused before, and every call of a
\* paying operation that passes a used hash fails, whoever calls and whatever
\* record or branch it targets: with PaymentHashAlreadyUsed, unless the reentrancy
\* guard, the pause, the string length check or the empty-batch check rejects it
\* first.
C3_ReplayRejected ==
    /\ \A op \in PaidOps :
          Passed(op) => /\ call.hash # 0
                        /\ call.hash \notin call.before.usedPaymentHashes
                        /\ call.hash \in usedPaymentHashes
    /\ call.state \in {"idle", "running"} =>
        \A h \in usedPaymentHashes, sender \in Address, ipfsCID \in CIDs :
            /\ \A courseId \in Course, recipientName \in Names :
               \A value \in ValueChoices(GetCertificatePrice(courseId)) :
                  ReplayError(MintOrUpdateOutcome(sender, courseId, recipientName,
                                                  ipfsCID, h, value),
                              RejectedEarlier(ipfsCID))
            /\ \A tokenId \in TokenIdInputs,
                  value \in ValueChoices(defaultCourseAdditionFee) :
                  ReplayError(UpdateCertificateError(sender, tokenId, ipfsCID, h, value),
                              RejectedEarlier(ipfsCID))
            /\ \A courseIds \in BatchInputs :
                  \A value \in ValueChoices(defaultCourseAdditionFee * Len(courseIds)) :
                     ReplayError(AddMultipleCoursesError(sender, courseIds, ipfsCID,
                                                         h, value),
                                 RejectedEarlier(ipfsCID) \/ Len(courseIds) = 0)

\* A call was rejected for its used payment hash while another address owns the
\* record that consumed a hash.
C3_Witness ==
    /\ call.state = "reverted"
    /\ call.err = "PaymentHashAlreadyUsed"
    /\ \E t \in DOMAIN certificates :
          /\ certificates[t].recipientAddress # call.sender
          /\ certificates[t].paymentReceiptHash \in usedPaymentHashes

\* Some course of the batch is not completed by the sender or is already in the
\* sender's certificate.
SomeCourseFails(sender, courseIds) ==
    \E i \in DOMAIN courseIds :
        \/ ~IsCourseCompleted(sender, courseIds[i])
        \/ <<userCertificates[sender], courseIds[i]>> \in certificateCourseExists

\* C4 (P6, atomic batch): a batch in which some course is not completed by the
\* caller or is already in the caller's certificate fails; a batch that fails
\* leaves the whole storage, its courses, counter, membership index and payment
\* hashes included, as it was; and a batch gets through its checks only with every
\* course completed and none of them a member before.
C4_BatchAtomic ==
    /\ call.state = "idle" =>
          \A sender \in Address, courseIds \in BatchInputs, ipfsCID \in CIDs,
             h \in HashInputs :
             \A value \in ValueChoices(defaultCourseAdditionFee * Len(courseIds)) :
                SomeCourseFails(sender, courseIds) =>
                   AddMultipleCoursesError(sender, courseIds, ipfsCID, h, value) # ""
    /\ (call.op = "addMultipleCoursesToCertificate" /\ call.state = "reverted")
          => Storage = call.before
    /\ Passed("addMultipleCoursesToCertificate") =>
          \A i \in DOMAIN call.courseIds :
             /\ IsCourseCompleted(call.sender, call.courseIds[i])
             /\ <<call.tokenId, call.courseIds[i]>>
                   \notin call.before.certificateCourseExists

\* A batch of the owner of a valid record has just failed on a course check.
C4_Witness ==
    /\ call.op = "addMultipleCoursesToCertificate"
    /\ call.state = "reverted"
    /\ call.err \in {"CourseNotCompleted", "CourseAlreadyInCertificate"}
    /\ userCertificates[call.sender] # 0

\* C5 (eligibility): every course in a record is completed by the record's owner
\* and the owner has held a license for it.  (The oracles do not change, so what
\* they say now is what they said when the course was added.)
C5_CoursesEligible ==
    \A t \in DOMAIN certificates :
        \A i \in DOMAIN certificates[t].completedCourses :
            LET owner == certificates[t].recipientAddress
                courseId == certificates[t].completedCourses[i]
            IN  /\ IsCourseCompleted(owner, courseId)
                /\ LicenseCourseId(owner, courseId) # 0

\* C6 (P5, settlement conservation): when a paying operation has returned, with
\* required amount R, fee percent F and attached value V, then V >= R, the
\* platform wallet was sent floor(R*F/100), the payee R minus that, the sender
\* V - R (nothing when V = R), and the contract holds what it held before.
C6_SettlementConservation ==
    \A op \in PaidOps :
        (call.op = op /\ call.state = "done") =>
            LET R == call.required
                V == call.value
                fee == (R * call.feePercent) \div 100
            IN  /\ V >= R
                /\ AtMostOneLeg("platform", call.before.platformWallet)
                /\ AtMostOneLeg("recipient", call.payee)
                /\ AtMostOneLeg("refund", call.sender)
                /\ AmountOf("platform") = fee
                /\ AmountOf("recipient") = R - fee
                /\ AmountOf("platform") + AmountOf("recipient") = R
                /\ AmountOf("refund") = V - R
                /\ contractBalance = call.before.contractBalance

\* A mint at a price that does not divide evenly has returned with a refund.
C6_Witness ==
    /\ call.op = "mintOrUpdateCertificate"
    /\ call.state = "done"
    /\ call.required = 45
    /\ AmountOf("platform") = 4
    /\ AmountOf("refund") > 0

\* C7 (error atomicity): when a paying operation has failed, at entry or at one
\* of its external calls, the storage and the contract's balance are what they
\* were before the call, no transfer of the call stands, and a hash the call had
\* marked is unused again.
C7_ErrorAtomicity ==
    \A op \in PaidOps :
        (call.op = op /\ call.state = "reverted") =>
            /\ Storage = call.before
            /\ call.legs = <<>>
            /\ status = NOT_ENTERED
            /\ call.err \in TransferErrors => call.hash \notin usedPaymentHashes

\* A mint has failed at its refund, after the record and the hash were written and
\* the platform and the creator were paid.
C7_Witness ==
    /\ call.op = "mintOrUpdateCertificate"
    /\ call.minted
    /\ call.state = "reverted"
    /\ call.err = "Refund failed"

\* The record mutation of the call in progress is in storage.
MutationWritten ==
    LET t == call.tokenId
    IN  /\ t \in DOMAIN certificates
        /\ certificates[t].recipientAddress = call.sender
        /\ certificates[t].paymentReceiptHash = call.hash
        /\ certificates[t].ipfsCID = call.cid
        /\ certificates[t].lastUpdated = call.time
        /\ call.op # "updateCertificate" =>
              /\ userCertificates[call.sender] = t
              /\ \A i \in DOMAIN call.courseIds :
                    /\ <<t, call.courseIds[i]>> \in certificateCourseExists
                    /\ \E j \in DOMAIN certificates[t].completedCourses :
                          certificates[t].completedCourses[j] = call.courseIds[i]

\* C8 (checks-effects-interactions): whenever control is with an external callee
\* (the token-receipt callback of a mint, a platform, payee or refund transfer),
\* the payment hash of the call is marked used and the record mutation is
\* written, and every call the callee makes into a paying operation fails, so it
\* neither consumes the hash again nor creates a second record.
C8_ChecksEffectsInteractions ==
    call.state = "running" =>
        /\ call.pending # <<>>
        /\ call.hash \in usedPaymentHashes
        /\ MutationWritten
        /\ call.reentered \in {"", "ReentrancyGuardReentrantCall"}
        /\ \A sender \in Address, ipfsCID \in CIDs, h \in {call.hash} \cup HashInputs :
              /\ \A courseId \in Course, recipientName \in Names :
                    MintOrUpdateOutcome(sender, courseId, recipientName, ipfsCID, h,
                                        GetCertificatePrice(courseId)) # ""
              /\ \A tokenId \in TokenIdInputs :
                    UpdateCertificateError(sender, tokenId, ipfsCID, h,
                                           defaultCourseAdditionFee) # ""
              /\ \A courseIds \in BatchInputs :
                    AddMultipleCoursesError(sender, courseIds, ipfsCID, h,
                        defaultCourseAdditionFee * Len(courseIds)) # ""

\* The minter's token-receipt callback has called back into the contract.
C8_Witness ==
    /\ call.state = "running"
    /\ call.minted
    /\ Head(call.pending).kind = "onERC1155Received"
    /\ call.reentered = "ReentrancyGuardReentrantCall"

\* C9 (mint effects, scenario A): a mintOrUpdateCertificate call of an address
\* without a record, for a course it completed and held a license for, with a
\* fresh non-zero hash and at least the price attached, passes every check (the
\* contract not paused, the strings valid); and when such a call has returned,
\* the caller owns a new valid record with that one course, counter 1, both
\* timestamps the time of the call and the hash as last payment, the hash is
\* used, and the price went 10% (floor) to the platform wallet and the rest to
\* the creator of the course.
C9_MintEffects ==
    /\ call.state = "idle" =>
          \A sender \in Address, courseId \in Course, recipientName \in Names,
             ipfsCID \in CIDs, h \in PaymentHash :
             \A value \in ValueChoices(GetCertificatePrice(courseId)) :
                ( /\ userCertificates[sender] = 0
                  /\ IsCourseCompleted(sender, courseId)
                  /\ LicenseCourseId(sender, courseId) # 0
                  /\ h # 0 /\ h \notin usedPaymentHashes
                  /\ value >= GetCertificatePrice(courseId)
                  /\ ~paused
                  /\ ValidStringLength(ipfsCID, 2000)
                  /\ ValidStringLength(recipientName, 100) )
                => MintOrUpdateOutcome(sender, courseId, recipientName, ipfsCID, h,
                                       value) = ""
    /\ (call.op = "mintOrUpdateCertificate" /\ call.state \in {"running", "done"})
          => (call.minted <=> call.before.userCertificates[call.sender] = 0)
    /\ (call.op = "mintOrUpdateCertificate" /\ call.state = "done" /\ call.minted) =>
          LET t == call.tokenId
              R == PriceBefore(call.courseIds[1])
              fee == (R * 10) \div 100
          IN  /\ t = call.before.nextTokenId
              /\ DOMAIN certificates = DOMAIN call.before.certificates \cup {t}
              /\ userCertificates[call.sender] = t
              /\ certificates[t].tokenId = t
              /\ certificates[t].recipientAddress = call.sender
              /\ certificates[t].recipientName = call.name
              /\ certificates[t].completedCourses = call.courseIds
              /\ Len(call.courseIds) = 1
              /\ certificates[t].totalCoursesCompleted = 1
              /\ certificates[t].isValid
              /\ certificates[t].issuedAt = call.time
              /\ certificates[t].lastUpdated = call.time
              /\ certificates[t].ipfsCID = call.cid
              /\ certificates[t].paymentReceiptHash = call.hash
              /\ usedPaymentHashes = call.before.usedPaymentHashes \cup {call.hash}
              /\ call.value >= R
              /\ AmountOf("platform") = fee
              /\ AtMostOneLeg("platform", call.before.platformWallet)
              /\ AmountOf("recipient") = R - fee
              /\ AtMostOneLeg("recipient", CourseCreator(call.courseIds[1]))

\* Scenario A: a mint at the default price of 0.001 ether, paid exactly, has
\* returned: 0.0001 to the platform, 0.0009 to the creator.
C9_Witness ==
    /\ call.op = "mintOrUpdateCertificate"
    /\ call.state = "done"
    /\ call.minted
    /\ call.value = 1000
    /\ AmountOf("platform") = 100
    /\ AmountOf("recipient") = 900
    /\ certificates[call.tokenId].completedCourses = call.courseIds

\* C10 (append settlement): when a mintOrUpdateCertificate call of the owner of a
\* record has returned, the required amount went 2% (floor) to the platform
\* wallet and the rest to the creator of the course, the record has exactly that
\* one course more, its ipfsCID is the one supplied and its last payment hash the
\* one of the call.
C10_AppendSettlement ==
    (call.op = "mintOrUpdateCertificate" /\ call.state = "done" /\ ~call.minted) =>
        LET t == call.tokenId
            old == call.before.certificates[t]
            R == PriceBefore(call.courseIds[1])
            fee == (R * 2) \div 100
        IN  /\ t # 0
            /\ call.before.userCertificates[call.sender] = t
            /\ Len(call.courseIds) = 1
            /\ call.value >= R
            /\ AmountOf("platform") = fee
            /\ AtMostOneLeg("platform", call.before.platformWallet)
            /\ AmountOf("recipient") = R - fee
            /\ AtMostOneLeg("recipient", CourseCreator(call.courseIds[1]))
            /\ AmountOf("refund") = call.value - R
            /\ certificates[t].completedCourses
                  = Append(old.completedCourses, call.courseIds[1])
            /\ certificates[t].totalCoursesCompleted = old.totalCoursesCompleted + 1
            /\ certificates[t].ipfsCID = call.cid
            /\ certificates[t].paymentReceiptHash = call.hash
            /\ DOMAIN certificates = DOMAIN call.before.certificates
            /\ \A u \in DOMAIN certificates : u # t =>
                  certificates[u] = call.before.certificates[u]

\* An append has returned that replaced the certificate image and the payment
\* hash of the record: 2% of the price to the platform, 98% to the creator.
C10_Witness ==
    /\ call.op = "mintOrUpdateCertificate"
    /\ call.state = "done"
    /\ ~call.minted
    /\ call.before.certificates[call.tokenId].ipfsCID # call.cid
    /\ call.before.certificates[call.tokenId].paymentReceiptHash # call.hash
    /\ AmountOf("platform") = 20
    /\ AmountOf("recipient") = 980

\* The storage as the chain has it: the writes of a transaction in progress are
\* not committed until it returns.
Committed == IF call.state = "running" THEN call.before ELSE Storage

\* The amount the claim has mintOrUpdateCertificate require: the override of the
\* course if set, else the default of the context.
ContextPrice(sender, courseId) ==
    IF courseCertificatePrices[courseId] > 0 THEN courseCertificatePrices[courseId]
    ELSE IF userCertificates[sender] = 0 THEN defaultCertificateFee
    ELSE defaultCourseAdditionFee

\* The call passes every check of mintOrUpdateCertificate but the payment check.
PassesButPayment(sender, courseId, recipientName, ipfsCID, h) ==
    /\ ~paused
    /\ ValidStringLength(ipfsCID, 2000)
    /\ h # 0 /\ h \notin usedPaymentHashes
    /\ IsCourseCompleted(sender, courseId)
    /\ LicenseCourseId(sender, courseId) # 0
    /\ IF userCertificates[sender] = 0
       THEN ValidStringLength(recipientName, 100)
       ELSE /\ certificates[userCertificates[sender]].isValid
            /\ <<userCertificates[sender], courseId>> \notin certificateCourseExists

\* C11 (price resolution): the amount mintOrUpdateCertificate requires for a
\* course is its price override when set, else the default of the context: the
\* default certificate fee for a mint, the default course addition fee for an
\* append.  A call that passes the other checks succeeds with exactly that
\* amount attached and fails with InsufficientPayment with one unit less.
C11_PriceResolution ==
    call.state = "idle" =>
        \A sender \in Address, courseId \in Course, recipientName \in Names,
           ipfsCID \in CIDs, h \in HashInputs :
           PassesButPayment(sender, courseId, recipientName, ipfsCID, h) =>
              LET price == ContextPrice(sender, courseId)
              IN  /\ MintOrUpdateOutcome(sender, courseId, recipientName, ipfsCID, h,
                                         price) = ""
                  /\ MintOrUpdateOutcome(sender, courseId, recipientName, ipfsCID, h,
                                         price - 1) = "InsufficientPayment"

\* C12 (mint/append exclusivity): a mintOrUpdateCertificate call that passes its
\* checks has created one record for the caller, exactly when the caller owned
\* none before, or has appended its one course to the caller's record, exactly
\* when the caller owned one; one of the two and never both, every other record
\* left as it was.
C12_MintOrAppend ==
    Passed("mintOrUpdateCertificate") =>
        LET old == call.before.certificates
            t == call.before.userCertificates[call.sender]
            created ==
                /\ Len(certificates) = Len(old) + 1
                /\ certificates[Len(certificates)].recipientAddress = call.sender
                /\ userCertificates[call.sender] = Len(certificates)
                /\ \A u \in DOMAIN old : certificates[u] = old[u]
            appended ==
                /\ t # 0
                /\ Len(certificates) = Len(old)
                /\ certificates[t].completedCourses
                      = Append(old[t].completedCourses, call.courseIds[1])
                /\ userCertificates[call.sender] = t
                /\ \A u \in DOMAIN old : u # t => certificates[u] = old[u]
        IN  /\ created <=> t = 0
            /\ appended <=> t # 0
            /\ created \/ appended
            /\ ~(created /\ appended)
            /\ call.minted <=> created

\* An append has returned: the caller owned the one record there is, no record
\* was created and the record has its second course.
C12_Witness ==
    /\ call.op = "mintOrUpdateCertificate"
    /\ call.state = "done"
    /\ ~call.minted
    /\ call.before.userCertificates[call.sender] = 1
    /\ Len(certificates) = 1
    /\ Len(certificates[1].completedCourses) = 2

\* The number of courses the step commits to record t: those of an append or a
\* batch that returns in this step, none in any other step.
CoursesAppendedTo(t) ==
    IF /\ call.state = "running" /\ call'.state = "done"
       /\ call'.tokenId = t /\ ~call'.minted
       /\ call'.op \in {"mintOrUpdateCertificate", "addMultipleCoursesToCertificate"}
    THEN Len(call'.courseIds)
    ELSE 0

\* C13 (P4, monotonic growth): in every step, for every record the chain has,
\* totalCoursesCompleted does not decrease and grows by exactly the number of
\* courses the step appends, the courses already there stay, lastUpdated does not
\* decrease and issuedAt does not change; under user calls, base route updates
\* and revocation.
C13_MonotonicGrowth ==
    [][\A t \in DOMAIN Committed.certificates :
          LET old == Committed.certificates[t]
              new == Committed'.certificates[t]
          IN  /\ t \in DOMAIN Committed'.certificates
              /\ new.totalCoursesCompleted >= old.totalCoursesCompleted
              /\ new.totalCoursesCompleted - old.totalCoursesCompleted
                    = CoursesAppendedTo(t)
              /\ Len(new.completedCourses) - Len(old.completedCourses)
                    = CoursesAppendedTo(t)
              /\ SubSeq(new.completedCourses, 1, Len(old.completedCourses))
                    = old.completedCourses
              /\ new.lastUpdated >= old.lastUpdated
              /\ new.issuedAt = old.issuedAt]_vars

\* The owner has updated the base route of a record that had grown to two
\* courses, at a time after its issue.
C13_Witness ==
    /\ call.op \in {"updateBaseRoute", "batchUpdateBaseRoute"}
    /\ call.state = "done"
    /\ \E t \in DOMAIN certificates :
          /\ certificates[t].totalCoursesCompleted >= 2
          /\ certificates[t].lastUpdated > certificates[t].issuedAt
          /\ certificates[t].baseRoute = Str("/v2", 3)
          /\ call.before.certificates[t].lastUpdated < certificates[t].lastUpdated

\* C14 (index synchronisation): in every state, mid-transaction ones included,
\* for every record totalCoursesCompleted is the length of completedCourses, and
\* certificateCourseExists holds for a record and a course exactly when the
\* course occurs in the record's completedCourses.
C14_IndexSync ==
    /\ \A t \in DOMAIN certificates :
          /\ certificates[t].totalCoursesCompleted
                = Len(certificates[t].completedCourses)
          /\ \A courseId \in Course :
                <<t, courseId>> \in certificateCourseExists
                   <=> \E i \in DOMAIN certificates[t].completedCourses :
                          certificates[t].completedCourses[i] = courseId
    /\ \A e \in certificateCourseExists :
          e[1] \in DOMAIN certificates /\ e[2] \in Course

\* A batch of two courses has returned on a record that had one course.
C14_Witness ==
    /\ call.op = "addMultipleCoursesToCertificate"
    /\ call.state = "done"
    /\ Len(call.courseIds) = 2
    /\ certificates[call.tokenId].totalCoursesCompleted = 3
    /\ Cardinality({e \in certificateCourseExists : e[1] = call.tokenId}) >= 2

\* The strings and values a caller may pass, the invalid ones included.
AnyString == Names \cup CIDs \cup {Str("long", 2001)}
AnyValue == {0, InitialCourseAdditionFee, InitialCertificateFee,
             MaxBatch * InitialCertificateFee}

\* Every call of a paying operation, whatever its inputs, ends with an error
\* that err(ENTERED) or err(NOT_ENTERED) allows, according to the guard.
EveryPaidCallFailsWith(errors) ==
    \A sender \in Address, ipfsCID \in AnyString, h \in PaymentHash,
       value \in AnyValue :
        /\ \A courseId \in Course, recipientName \in AnyString :
              MintOrUpdateOutcome(sender, courseId, recipientName, ipfsCID, h, value)
                 \in errors
        /\ \A tokenId \in TokenIdInputs :
              UpdateCertificateError(sender, tokenId, ipfsCID, h, value) \in errors
        /\ \A courseIds \in BatchInputs :
              AddMultipleCoursesError(sender, courseIds, ipfsCID, h, value) \in errors

\* C15 (pause) as claimed: while the contract is paused, every call of
\* mintOrUpdateCertificate, updateCertificate and addMultipleCoursesToCertificate
\* ends with EnforcedPause, whatever its inputs.
C15_PausedFailsWithEnforcedPause ==
    (paused /\ call.state \in {"idle", "running"})
        => EveryPaidCallFailsWith({"EnforcedPause"})

\* C15 (pause) as amended: while the contract is paused, every call of the three
\* paying operations fails and changes nothing: with EnforcedPause before any
\* check of its inputs, except that a call made from inside a paying operation
\* in progress is rejected by the reentrancy guard first.  No paying operation
\* gets through its checks on a paused contract.
C15_PausedRejected ==
    /\ (paused /\ call.state \in {"idle", "running"}) =>
          EveryPaidCallFailsWith(IF status = ENTERED
                                 THEN {"ReentrancyGuardReentrantCall"}
                                 ELSE {"EnforcedPause"})
    /\ \A op \in PaidOps :
          /\ Passed(op) => ~call.before.paused
          /\ (call.op = op /\ call.state = "reverted" /\ call.err = "EnforcedPause")
                => /\ Storage = call.before
                   /\ paused
                   /\ status = NOT_ENTERED

\* A paying operation has been rejected by the pause, with a record and a used
\* payment hash in storage.
C15_Witness ==
    /\ paused
    /\ call.op \in PaidOps
    /\ call.state = "reverted"
    /\ call.err = "EnforcedPause"
    /\ certificates # <<>>
    /\ usedPaymentHashes # {}

\* C16 (content refresh effects): an updateCertificate call that passes its
\* checks changes, in the record it targets, ipfsCID to the new value,
\* lastUpdated to the time of the call and paymentReceiptHash to the hash of the
\* call, and nothing else; it marks that hash used, and leaves the courses, the
\* counter, the membership index, the owner index, the token balances, the
\* prices and every other record as they were.
C16_RefreshEffects ==
    Passed("updateCertificate") =>
        LET t == call.tokenId
            old == call.before.certificates
        IN  /\ t \in DOMAIN old
            /\ certificates =
                  [old EXCEPT ![t] = [@ EXCEPT !.ipfsCID = call.cid,
                                               !.lastUpdated = call.time,
                                               !.paymentReceiptHash = call.hash]]
            /\ call.time = now
            /\ call.hash \notin call.before.usedPaymentHashes
            /\ usedPaymentHashes = call.before.usedPaymentHashes \cup {call.hash}
            /\ certificateCourseExists = call.before.certificateCourseExists
            /\ userCertificates = call.before.userCertificates
            /\ nextTokenId = call.before.nextTokenId
            /\ tokenBalance = call.before.tokenBalance
            /\ courseCertificatePrices = call.before.courseCertificatePrices
            /\ defaultCertificateFee = call.before.defaultCertificateFee
            /\ defaultCourseAdditionFee = call.before.defaultCourseAdditionFee
            /\ platformWallet = call.before.platformWallet

\* A refresh has returned, later than the issue of the record, with a new
\* certificate image and a new payment hash.
C16_Witness ==
    /\ call.op = "updateCertificate"
    /\ call.state = "done"
    /\ call.before.certificates[call.tokenId].ipfsCID # call.cid
    /\ call.before.certificates[call.tokenId].paymentReceiptHash # call.hash
    /\ certificates[call.tokenId].issuedAt < call.time
    /\ certificates[call.tokenId].ipfsCID = call.cid

\* C17 (content refresh authorization): updateCertificate called by anyone but
\* the owner of the record it targets fails, whatever else is passed; with a
\* fresh hash, a sufficient value, a valid string and a valid record it fails on
\* the owner check itself.  A refresh that passes its checks was called by the
\* owner, and a refresh that fails leaves the record, the used hashes and the
\* balances as they were.
C17_RefreshOnlyOwner ==
    /\ call.state \in {"idle", "running"} =>
          \A sender \in Address, tokenId \in DOMAIN certificates,
             ipfsCID \in AnyString, h \in PaymentHash, value \in AnyValue :
             certificates[tokenId].recipientAddress # sender =>
                LET err == UpdateCertificateError(sender, tokenId, ipfsCID, h, value)
                IN  /\ err # ""
                    /\ ( /\ status = NOT_ENTERED /\ ~paused
                         /\ ValidStringLength(ipfsCID, 2000)
                         /\ h # 0 /\ h \notin usedPaymentHashes
                         /\ value >= defaultCourseAdditionFee
                         /\ certificates[tokenId].isValid )
                       => err = "Only certificate owner can update"
    /\ Passed("updateCertificate") =>
          call.before.certificates[call.tokenId].recipientAddress = call.sender
    /\ (call.op = "updateCertificate" /\ call.state = "reverted") =>
          /\ Storage = call.before
          /\ call.legs = <<>>

\* A refresh of a record by an address that does not own it has failed on the
\* owner check.
C17_Witness ==
    /\ call.op = "updateCertificate"
    /\ call.state = "reverted"
    /\ call.err = "Only certificate owner can update"
    /\ \E t \in DOMAIN certificates : certificates[t].recipientAddress # call.sender

C19_RevocationOneWay ==
    [][/\ \A t \in DOMAIN Committed.certificates :
             LET old == Committed.certificates[t]
                 new == Committed'.certificates[t]
             IN  /\ t \in DOMAIN Committed'.certificates
                 /\ ~old.isValid => ~new.isValid
                 /\ (old.isValid /\ ~new.isValid) =>
                       /\ call'.op = "revokeCertificate"
                       /\ call'.state = "done"
                       /\ call'.tokenId = t
       /\ \A t \in DOMAIN Committed'.certificates \ DOMAIN Committed.certificates :
             Committed'.certificates[t].isValid]_vars

\* A record already revoked has been revoked again and is still not valid.
C19_Witness ==
    /\ call.op = "revokeCertificate"
    /\ call.state = "done"
    /\ ~call.before.certificates[call.tokenId].isValid
    /\ ~certificates[call.tokenId].isValid

\* The record is not one a paying operation may write: never allocated, or
\* revoked.
InvalidTarget(tokenId) ==
    tokenId \notin DOMAIN certificates \/ ~certificates[tokenId].isValid

\* C20 (revoked or absent record) as claimed: a single append, a batch and a
\* refresh whose target was never allocated or is revoked end with
\* CertificateNotFound, whatever else is passed.
C20_InvalidTargetFailsWithCertificateNotFound ==
    call.state = "idle" =>
        \A sender \in Address, ipfsCID \in CIDs, h \in HashInputs, value \in AnyValue :
            /\ \A courseId \in Course, recipientName \in Names :
                  (userCertificates[sender] # 0
                      /\ InvalidTarget(userCertificates[sender]))
                  => MintOrUpdateOutcome(sender, courseId, recipientName, ipfsCID, h,
                                         value) = "CertificateNotFound"
            /\ \A courseIds \in BatchInputs :
                  InvalidTarget(userCertificates[sender])
                  => AddMultipleCoursesError(sender, courseIds, ipfsCID, h, value)
                        = "CertificateNotFound"
            /\ \A tokenId \in TokenIdInputs :
                  InvalidTarget(tokenId)
                  => UpdateCertificateError(sender, tokenId, ipfsCID, h, value)
                        = "CertificateNotFound"

\* The checks every paying operation makes before it looks at its target.
RejectedBeforeTarget(ipfsCID, h) ==
    \/ status = ENTERED \/ paused
    \/ ~ValidStringLength(ipfsCID, 2000)
    \/ h = 0 \/ h \in usedPaymentHashes

\* C20 (revoked or absent record) as amended: a single append, a batch and a
\* refresh whose target was never allocated or is revoked always fail and leave
\* the storage as it was, and no paying operation gets through its checks on
\* such a record.  The error is CertificateNotFound when no earlier check
\* rejects the call: the guard, the pause, the string and hash checks, the empty
\* batch, for the single append the completion, license and payment checks, for
\* the refresh of a revoked record the payment check.  A batch of a caller
\* without record fails with NoCertificateExists.
C20_InvalidTargetRejected ==
    /\ call.state \in {"idle", "running"} =>
        \A sender \in Address, ipfsCID \in AnyString, h \in PaymentHash,
           value \in AnyValue :
            /\ \A courseId \in Course, recipientName \in Names :
                  (userCertificates[sender] # 0
                      /\ InvalidTarget(userCertificates[sender]))
                  => LET err == MintOrUpdateOutcome(sender, courseId, recipientName,
                                                    ipfsCID, h, value)
                     IN  /\ err # ""
                         /\ ~( \/ RejectedBeforeTarget(ipfsCID, h)
                               \/ ~IsCourseCompleted(sender, courseId)
                               \/ LicenseCourseId(sender, courseId) = 0
                               \/ value < GetCertificatePrice(courseId) )
                            => err = "CertificateNotFound"
            /\ \A courseIds \in BatchInputs :
                  InvalidTarget(userCertificates[sender])
                  => LET err == AddMultipleCoursesError(sender, courseIds, ipfsCID,
                                                        h, value)
                     IN  /\ err # ""
                         /\ ~(RejectedBeforeTarget(ipfsCID, h) \/ Len(courseIds) = 0)
                            => err = IF userCertificates[sender] = 0
                                     THEN "NoCertificateExists"
                                     ELSE "CertificateNotFound"
            /\ \A tokenId \in TokenIdInputs :
                  InvalidTarget(tokenId)
                  => LET err == UpdateCertificateError(sender, tokenId, ipfsCID, h,
                                                       value)
                     IN  /\ err # ""
                         /\ ~( \/ RejectedBeforeTarget(ipfsCID, h)
                               \/ (Exists(tokenId) /\ value < defaultCourseAdditionFee) )
                            => err = "CertificateNotFound"
    /\ \A op \in PaidOps :
          /\ (Passed(op) /\ ~call.minted) =>
                /\ call.tokenId \in DOMAIN call.before.certificates
                /\ call.before.certificates[call.tokenId].isValid
          /\ ( /\ call.op = op /\ call.state = "reverted"
               /\ call.err \in {"CertificateNotFound", "NoCertificateExists"} )
                => Storage = call.before

\* The owner of a revoked record has called mintOrUpdateCertificate for another
\* course and was rejected with CertificateNotFound.
C20_Witness ==
    /\ call.op = "mintOrUpdateCertificate"
    /\ call.state = "reverted"
    /\ call.err = "CertificateNotFound"
    /\ userCertificates[call.sender] # 0
    /\ ~certificates[userCertificates[call.sender]].isValid

\* C21 (soulbound identity): in every step the records allocated keep their id,
\* their recipientAddress and their recipientName, whatever name an append
\* passes; a new record takes the id nextTokenId had, which then grows by one, so
\* ids increase strictly and are never reused; every safeTransferFrom fails, and
\* the token balances change only by the unit a mint gives to its caller.
C21_SoulboundIdentity ==
    [][/\ Committed'.nextTokenId >= Committed.nextTokenId
       /\ \A t \in DOMAIN Committed.certificates :
             /\ t \in DOMAIN Committed'.certificates
             /\ Committed'.certificates[t].tokenId = Committed.certificates[t].tokenId
             /\ Committed'.certificates[t].recipientAddress
                   = Committed.certificates[t].recipientAddress
             /\ Committed'.certificates[t].recipientName
                   = Committed.certificates[t].recipientName
       /\ \A t \in DOMAIN Committed'.certificates \ DOMAIN Committed.certificates :
             /\ t = Committed.nextTokenId
             /\ Committed'.nextTokenId = t + 1
             /\ Committed'.certificates[t].tokenId = t
             /\ Committed'.tokenBalance = Committed.tokenBalance
                   \cup {<<Committed'.certificates[t].recipientAddress, t>>}
       /\ (DOMAIN Committed'.certificates = DOMAIN Committed.certificates)
             => /\ Committed'.tokenBalance = Committed.tokenBalance
                /\ Committed'.nextTokenId = Committed.nextTokenId
       /\ (call'.op = "safeTransferFrom" /\ call.state = "idle")
             => /\ call'.state = "reverted"
                /\ call'.err # ""
                /\ Storage' = Storage]_vars

\* The holder of a record that has been appended to has tried to move its token
\* to another address, and the attempt was turned down as soulbound.
C21_Witness ==
    /\ call.op = "safeTransferFrom"
    /\ call.state = "reverted"
    /\ call.err = "Certificates are soulbound"
    /\ userCertificates[call.sender] # 0
    /\ <<call.sender, userCertificates[call.sender]>> \in tokenBalance
    /\ Len(certificates[userCertificates[call.sender]].completedCourses) > 1
    /\ certificates[userCertificates[call.sender]].recipientAddress = call.sender

\* The configuration is within its bounds.
ConfigWithinBounds(s) ==
    /\ s.defaultCertificateFee > 0
    /\ s.defaultCertificateFee <= MAX_CERTIFICATE_PRICE
    /\ s.defaultCourseAdditionFee > 0
    /\ s.defaultCourseAdditionFee <= MAX_CERTIFICATE_PRICE
    /\ \A courseId \in Course :
          \/ s.courseCertificatePrices[courseId] = 0
          \/ /\ s.courseCertificatePrices[courseId] > 0
             /\ s.courseCertificatePrices[courseId] <= MAX_CERTIFICATE_PRICE
    /\ s.platformWallet # 0

SetterOps == {"setDefaultCertificateFee", "setDefaultCourseAdditionFee",
              "setCourseCertificatePrice", "setPlatformWallet"}

\* C22 (configuration bounds): before and after every step, the default mint fee
\* and the default addition fee are above zero and at most MAX_CERTIFICATE_PRICE,
\* every course price is unset or within the same bounds, and the platform wallet
\* is not the zero address, although the setters are offered a zero price, a
\* price above the ceiling and the zero address; a setter call that fails leaves
\* the storage as it was, and one that returns has written a value within bounds.
C22_ConfigBounds ==
    [][/\ ConfigWithinBounds(Storage)
       /\ ConfigWithinBounds(Storage')
       /\ (call.state = "idle" /\ call'.op \in SetterOps)
             => IF call'.state = "reverted"
                THEN call'.err # "" /\ Storage' = Storage
                ELSE call'.state = "done"]_vars

\* Every setter has stored a value within bounds, the last one the mint fee.
C22_Witness ==
    /\ call.op = "setDefaultCertificateFee"
    /\ call.state = "done"
    /\ defaultCertificateFee # InitialCertificateFee
    /\ defaultCourseAdditionFee # InitialCourseAdditionFee
    /\ courseCertificatePrices[3] # 0
    /\ platformWallet # InitialPlatformWallet

\* The functions of the owner.
OwnerOps == {"setDefaultCertificateFee", "setDefaultCourseAdditionFee",
             "setPlatformWallet", "setDefaultPlatformName", "updateDefaultBaseRoute",
             "updateDefaultMetadataBaseURI", "setTokenURI", "updateBaseRoute",
             "batchUpdateBaseRoute", "revokeCertificate", "pause", "unpause"}

\* The step is the return of the given function, called by the given address.
ReturnOf(ops, sender) ==
    /\ call.state = "idle"
    /\ call'.op \in ops
    /\ call'.state = "done"
    /\ call'.sender = sender

\* C23 (authority gating): in every step, an owner function called by another
\* address than the owner fails with OwnableUnauthorizedAccount and leaves the
\* storage as it was; the default fees, the platform wallet, the platform name,
\* the default base route, the metadata base URI, the custom token URIs, the
\* base route and the validity of a record change only by the return of their
\* function called by the owner, and the pause flag only so or by the owner
\* pausing while receiving a payment (and back by the revert of that payment);
\* the price of a course changes only by a setCourseCertificatePrice of its
\* creator, and the one of the owner fails when the owner is not the creator.
C23_AuthorityGating ==
    [][/\ (call.state = "idle" /\ call'.op \in OwnerOps
              /\ call'.sender # ContractOwner)
             => /\ call'.state = "reverted"
                /\ call'.err = "OwnableUnauthorizedAccount"
                /\ Storage' = Storage
       /\ defaultCertificateFee' # defaultCertificateFee
             => ReturnOf({"setDefaultCertificateFee"}, ContractOwner)
       /\ defaultCourseAdditionFee' # defaultCourseAdditionFee
             => ReturnOf({"setDefaultCourseAdditionFee"}, ContractOwner)
       /\ platformWallet' # platformWallet
             => ReturnOf({"setPlatformWallet"}, ContractOwner)
       /\ defaultPlatformName' # defaultPlatformName
             => ReturnOf({"setDefaultPlatformName"}, ContractOwner)
       /\ defaultBaseRoute' # defaultBaseRoute
             => ReturnOf({"updateDefaultBaseRoute"}, ContractOwner)
       /\ defaultMetadataBaseURI' # defaultMetadataBaseURI
             => ReturnOf({"updateDefaultMetadataBaseURI"}, ContractOwner)
       /\ tokenURIs' # tokenURIs
             => ReturnOf({"setTokenURI"}, ContractOwner)
       /\ \A t \in DOMAIN certificates \cap DOMAIN certificates' :
             /\ certificates'[t].baseRoute # certificates[t].baseRoute
                   => ReturnOf({"updateBaseRoute", "batchUpdateBaseRoute"},
                               ContractOwner)
             /\ certificates'[t].isValid # certificates[t].isValid
                   => ReturnOf({"revokeCertificate"}, ContractOwner)
       /\ paused' # paused
             => \/ ReturnOf({"pause", "unpause"}, ContractOwner)
                \/ /\ call.state = "running"
                   /\ call'.state = "running"
                   /\ Head(call.pending).to = ContractOwner
                   /\ paused'
                \/ /\ call.state = "running"
                   /\ call'.state = "reverted"
                   /\ paused' = call.before.paused
       /\ \A courseId \in Course :
             courseCertificatePrices'[courseId] # courseCertificatePrices[courseId]
                => ReturnOf({"setCourseCertificatePrice"}, CourseCreator(courseId))
       /\ \A sender \in Address :
             ReturnOf({"setCourseCertificatePrice"}, sender)
                => \E courseId \in Course :
                      /\ CourseCreator(courseId) = sender
                      /\ \A other \in Course \ {courseId} :
                            courseCertificatePrices'[other]
                               = courseCertificatePrices[other]]_vars

\* The owner and another creator have each priced their own course, and the
\* owner's call to price a course of another creator has failed.
C23_Witness ==
    /\ call.op = "setCourseCertificatePrice"
    /\ call.state = "reverted"
    /\ call.sender = ContractOwner
    /\ call.err = "Only course creator can set price"
    /\ \E courseId \in Course :
          /\ CourseCreator(courseId) = ContractOwner
          /\ courseCertificatePrices[courseId] # 0
    /\ \E courseId \in Course :
          /\ CourseCreator(courseId) # ContractOwner
          /\ courseCertificatePrices[courseId] # 0
    /\ platformWallet # InitialPlatformWallet

\* The events _mintFirstCertificate emits: CertificateMinted and
\* CertificatePaymentRecorded, with the fields they carry.
MintEvents(sender, tokenId, recipientName, ipfsCID, paymentReceiptHash, certificatePrice) ==
    << [ event |-> "CertificateMinted", owner |-> sender, tokenId |-> tokenId,
         recipientName |-> recipientName, ipfsCID |-> ipfsCID,
         paymentReceiptHash |-> paymentReceiptHash, pricePaid |-> certificatePrice ],
       [ event |-> "CertificatePaymentRecorded", payer |-> sender, owner |-> sender,
         tokenId |-> tokenId, paymentReceiptHash |-> paymentReceiptHash ] >>

\* The call is a mint that passes every check.
MintPasses(sender, courseId, recipientName, ipfsCID, h, value) ==
    /\ userCertificates[sender] = 0
    /\ MintOrUpdateOutcome(sender, courseId, recipientName, ipfsCID, h, value) = ""

\* C24 (event completeness): the record a mint creates can be told from the
\* events of the mint: two mints that emit the same events, with the same
\* fields, store the same sequence of completed courses.
C24_EventCompleteness ==
    call.state = "idle" =>
        \A sender \in Address, recipientName \in Names, ipfsCID \in CIDs :
           \A h \in HashInputs, first \in Course, other \in Course :
              ( /\ MintPasses(sender, first, recipientName, ipfsCID, h,
                              GetCertificatePrice(first))
                /\ MintPasses(sender, other, recipientName, ipfsCID, h,
                              GetCertificatePrice(other))
                /\ MintEvents(sender, nextTokenId, recipientName, ipfsCID, h,
                              GetCertificatePrice(first))
                      = MintEvents(sender, nextTokenId, recipientName, ipfsCID, h,
                                   GetCertificatePrice(other)) )
              => NewCertificate(nextTokenId, sender, first, recipientName,
                                ipfsCID, h, InitialBaseRoute).completedCourses
                    = NewCertificate(nextTokenId, sender, other, recipientName,
                                     ipfsCID, h, InitialBaseRoute).completedCourses

\* C25 (append error precedence): while no transaction is in progress and the
\* contract is not paused, a mintOrUpdateCertificate by the owner of a valid
\* record, with a valid image, a fresh payment hash and a course that is
\* completed, licensed and already in the record, ends with
\* CourseAlreadyInCertificate whatever value is attached, a value below the
\* price included.
C25_DuplicateBeforePayment ==
    (call.state = "idle" /\ ~paused) =>
        \A sender \in Address, courseId \in Course, recipientName \in Names :
           \A ipfsCID \in CIDs, h \in HashInputs, value \in AnyValue :
              ( /\ userCertificates[sender] # 0
                /\ certificates[userCertificates[sender]].isValid
                /\ certificates[userCertificates[sender]].recipientAddress = sender
                /\ <<userCertificates[sender], courseId>> \in certificateCourseExists
                /\ IsCourseCompleted(sender, courseId)
                /\ LicenseCourseId(sender, courseId) # 0
                /\ ValidStringLength(ipfsCID, 2000)
                /\ h # 0 /\ ~PaymentHashUsed(h) )
              => MintOrUpdateOutcome(sender, courseId, recipientName, ipfsCID, h,
                                     value) = "CourseAlreadyInCertificate"

\* The base prices the breakdown is compared on: every amount up to MaxBasePrice,
\* and the default and the highest price.
MaxBasePrice == 120
BasePrices == (0..MaxBasePrice) \cup {InitialCertificateFee, MAX_CERTIFICATE_PRICE}

\* C26 (client fee breakdown): for every base price and both values of
\* isFirstCertificate, the platform fee and the creator fee of the client's
\* breakdown add up to the base price and equal the shares the contract's
\* settlement computes for that amount (10% for a mint, 2% for an append); and
\* when a mintOrUpdateCertificate has returned, the breakdown of its price equals
\* the amounts the contract sent to the platform wallet and to the creator.
C26_ClientFeeBreakdown ==
    /\ \A basePrice \in BasePrices, isFirstCertificate \in BOOLEAN :
          LET p == PriceBreakdown(basePrice, isFirstCertificate)
              share == IF isFirstCertificate THEN CertificatePlatformFee(basePrice)
                       ELSE AdditionPlatformFee(basePrice)
          IN  /\ p.platformFee + p.creatorFee = basePrice
              /\ p.totalRequired = basePrice
              /\ p.platformFee = share
              /\ p.creatorFee = basePrice - share
    /\ (call.op = "mintOrUpdateCertificate" /\ call.state = "done") =>
          LET p == CalculateCertificatePrice(call.courseIds[1], call.minted)
          IN  /\ p.basePrice = call.required
              /\ p.platformFee = AmountOf("platform")
              /\ p.creatorFee = AmountOf("recipient")

\* An append at a price so low that the 2% share rounds to nothing has settled:
\* the whole price went to the creator.
C26_Witness ==
    /\ call.op = "mintOrUpdateCertificate"
    /\ call.state = "done"
    /\ ~call.minted
    /\ call.required = 45
    /\ AmountOf("platform") = 0
    /\ AmountOf("recipient") = 45
    /\ CalculateCertificatePrice(call.courseIds[1], FALSE).creatorFee = 45

\* C27 (append fee in the indexer): when a single append has returned, on a
\* record that now holds more than one course, the platform fee and the creator
\* revenue the indexer attributes for its CourseAddedToCertificate event are the
\* amounts the contract sent to the platform wallet and to the creator.
C27_IndexerAppendFee ==
    ( /\ call.op = "mintOrUpdateCertificate"
      /\ call.state = "done"
      /\ ~call.minted
      /\ Len(certificates[call.tokenId].completedCourses) > 1 )
    => LET attributed == HandleCourseAddedToCertificate(call.required,
                             Len(certificates[call.tokenId].completedCourses))
       IN  /\ attributed.platformFee = AmountOf("platform")
           /\ attributed.creatorRevenue = AmountOf("recipient")

\* C28 (records and owners): at every moment, transactions in progress
\* included, the records are those of the ids 1 .. nextTokenId - 1; an address
\* is mapped to an id other than 0 exactly when the record of that id exists and
\* names the address as its recipient, so that every id has one owner and no
\* owner two ids; the tokenId field of a record is its id; and the owner of a
\* record holds the one unit of its token, nobody else holding any.
C28_RecordOwnerBijection ==
    /\ DOMAIN certificates = 1..(nextTokenId - 1)
    /\ \A P \in Address, T \in 1..nextTokenId :
          (userCertificates[P] = T)
             <=> (Exists(T) /\ certificates[T].recipientAddress = P)
    /\ \A P \in Address : userCertificates[P] \in 0..(nextTokenId - 1)
    /\ \A T \in DOMAIN certificates :
          /\ certificates[T].tokenId = T
          /\ certificates[T].recipientAddress \in Address
          /\ \A P \in Address :
                <<P, T>> \in tokenBalance <=> P = certificates[T].recipientAddress
    /\ \A b \in tokenBalance : b[2] \in DOMAIN certificates

\* Two addresses hold a record each, one of them revoked, and the owner of the
\* second has seen their mint return.
C28_Witness ==
    /\ call.op = "mintOrUpdateCertificate"
    /\ call.state = "done"
    /\ call.minted
    /\ nextTokenId = 3
    /\ certificates[1].recipientAddress # certificates[2].recipientAddress
    /\ ~certificates[1].isValid

\* C29 (payment hashes of the records): before and after every step, the
\* paymentReceiptHash of every record is not zero and is marked used, and no two
\* records have the same; the committed set of used hashes never loses a member,
\* grows by exactly the hash of the call, which was not in it, when a mint, an
\* append, a batch or a refresh returns, and does not change otherwise.
C29_PaymentHashLedger ==
    [][/\ \A s \in {Storage, Storage', Committed, Committed'} :
             /\ \A T \in DOMAIN s.certificates :
                   /\ s.certificates[T].paymentReceiptHash # 0
                   /\ s.certificates[T].paymentReceiptHash \in s.usedPaymentHashes
             /\ \A T \in DOMAIN s.certificates, U \in DOMAIN s.certificates :
                   T # U => s.certificates[T].paymentReceiptHash
                               # s.certificates[U].paymentReceiptHash
       /\ Committed.usedPaymentHashes \subseteq Committed'.usedPaymentHashes
       /\ IF call.state = "running" /\ call'.state = "done" /\ call'.op \in PaidOps
          THEN /\ call'.hash \notin Committed.usedPaymentHashes
               /\ Committed'.usedPaymentHashes
                     = Committed.usedPaymentHashes \cup {call'.hash}
               /\ Cardinality(Committed'.usedPaymentHashes)
                     = Cardinality(Committed.usedPaymentHashes) + 1
          ELSE Committed'.usedPaymentHashes = Committed.usedPaymentHashes]_vars

\* A refresh has returned after a mint: both hashes are marked, and the record
\* now carries the hash of the refresh instead of the one of the mint.
C29_Witness ==
    /\ call.op = "updateCertificate"
    /\ call.state = "done"
    /\ Cardinality(usedPaymentHashes) = 2
    /\ certificates[call.tokenId].paymentReceiptHash = call.hash
    /\ call.before.certificates[call.tokenId].paymentReceiptHash # call.hash
    /\ call.before.certificates[call.tokenId].paymentReceiptHash \in usedPaymentHashes

\* C30 (client eligibility): while no transaction is in progress and the
\* contract is not paused, whenever the client's check answers eligible for an
\* address and a course, the mintOrUpdateCertificate of that address for that
\* course, with a name and an image of valid length, a fresh payment hash and
\* the price the client reads attached, passes every check of the contract, and
\* is a mint exactly when the check answered isFirstCertificate; the holders of
\* a revoked record included.
C30_EligibleCallSucceeds ==
    (call.state = "idle" /\ ~paused) =>
        \A sender \in Address, courseId \in Course :
           \A recipientName \in Names, ipfsCID \in CIDs, h \in HashInputs :
              LET eligibility == CheckEligibilityForCertificate(sender, courseId)
                  price == ClientGetCertificatePrice(courseId,
                                                     eligibility.isFirstCertificate)
              IN  ( /\ eligibility.eligible
                    /\ ValidStringLength(recipientName, 100)
                    /\ ValidStringLength(ipfsCID, 2000)
                    /\ h # 0 /\ ~PaymentHashUsed(h) )
                  => /\ MintOrUpdateOutcome(sender, courseId, recipientName,
                                            ipfsCID, h, price) = ""
                     /\ eligibility.isFirstCertificate
                           <=> userCertificates[sender] = 0
====
